---- MODULE Spec2Model ----
(***************************************************************************)
(* Tracking and persistence core of the component tool:                    *)
(*   - DataToPersist, the change-set of pending writes, removals and       *)
(*     symlinks and its commit to the filesystem or to a capsule;          *)
(*   - addAction, the add resolver that reconciles candidate components    *)
(*     with the component index (BitMap);                                  *)
(*   - installAction, the package-manager client that installs in the      *)
(*     root directory and in the directories of the components.            *)
(***************************************************************************)
EXTENDS Integers, Sequences, FiniteSets, TLC

\* F of the value of v.
With(v, F(_)) == CHOOSE r \in {F(x) : x \in {v}} : TRUE

(***************************************************************************)
(* Bounds of the model.                                                    *)
(***************************************************************************)
MaxPending == 3

\* Add invocations in one behaviour.
MaxAdds == 2

\* Longest path addBasePath is let to build.
MaxPathLen == 4

\* The directories one install is called with, at most.
MaxDirs == 2

(***************************************************************************)
(* Strings that the code inspects character by character (paths) are       *)
(* sequences of one-character strings.                                     *)
(***************************************************************************)
PathSep == "/"

StartsWith(s, p) == Len(p) <= Len(s) /\ SubSeq(s, 1, Len(p)) = p

IsAbsolute(p) == Len(p) > 0 /\ p[1] = PathSep

\* The paths the operations are exercised with.
PBar == <<"/", "b">>
PBarFoo == <<"/", "b", "/", "f">>
PBarn == <<"/", "b", "n">>
PRelFoo == <<"f">>
PRelBar == <<"b">>
PEmpty == <<>>

\* The base paths addBasePath is exercised with.
PBase == <<"/", "w">>
PRelBase == <<"w">>

BasePaths == {PBase, PRelBase}

WritePaths == {PBar, PBarFoo, PBarn, PRelFoo}

\* Segments of a path: the pieces between separators.
RECURSIVE SplitFrom(_, _, _)
SplitFrom(p, i, cur) ==
  IF i > Len(p) THEN <<cur>>
  ELSE IF p[i] = PathSep THEN <<cur>> \o SplitFrom(p, i + 1, <<>>)
  ELSE SplitFrom(p, i + 1, Append(cur, p[i]))

Segments(p) == SplitFrom(p, 1, <<>>)

\* d is a directory-ancestor of p: the segments of d are a proper prefix of p's.
IsAncestorDir(d, p) ==
  LET sd == Segments(d)
      sp == Segments(p)
  IN Len(sd) < Len(sp) /\ SubSeq(sp, 1, Len(sd)) = sd

InAncestorRelation(p, q) == IsAncestorDir(p, q) \/ IsAncestorDir(q, p)

(***************************************************************************)
(* The objects handed to a change-set.                                     *)
(***************************************************************************)
NoFile == [null |-> TRUE]

Contents == {"c1", "c2"}

\* A file to write: its path, its contents and its override flag.  One path
\* comes with either contents and no override.
Vinyls ==
  { v \in [path : WritePaths, contents : Contents, override : BOOLEAN] :
      /\ v.override => v.contents = "c2"
      /\ (~v.override /\ v.path # PRelFoo) => v.contents = "c1" }

PathlessVinyl == [path |-> PEmpty, contents |-> "c1", override |-> FALSE]

FileInputs == Vinyls \cup {PathlessVinyl, NoFile}

\* RemovePath objects; oid is the object's identity (includes() compares by it).
RemoveObjs ==
  { [oid |-> 1, path |-> PBar, removeItsDirIfEmpty |-> FALSE],
    [oid |-> 2, path |-> PBar, removeItsDirIfEmpty |-> TRUE],
    [oid |-> 3, path |-> PRelBar, removeItsDirIfEmpty |-> FALSE] }

RemoveInputs == RemoveObjs \cup {NoFile}

SymlinkInputs ==
  { [src |-> PBar, dest |-> PBarn],
    [src |-> PRelBar, dest |-> PRelFoo],
    [src |-> PEmpty, dest |-> PBarn],
    [src |-> PBar, dest |-> PEmpty] }

(***************************************************************************)
(* DataToPersist: the operations as functions of the collections.  A call  *)
(* that throws keeps what it had already changed; err names the error.     *)
(***************************************************************************)
RemoveAt(s, i) == SubSeq(s, 1, i - 1) \o SubSeq(s, i + 1, Len(s))

\* Mutant of FindIndex: a pending path is never found.
FindIndexNone(fs, path) == 0

\* findIndex(existingFile => existingFile.path === file.path); 0 when absent.
FindIndex(fs, path) ==
  IF \E i \in 1..Len(fs) : fs[i].path = path
  THEN CHOOSE i \in 1..Len(fs) :
         fs[i].path = path /\ \A j \in 1..(i - 1) : fs[j].path # path
  ELSE 0

\* Mutant of DirectoryCollision: only the second scenario of the two is checked.
DirectoryCollisionOneWay(fs, file) ==
  \E i \in 1..Len(fs) : StartsWith(file.path, Append(fs[i].path, PathSep))

\* Mutant of DirectoryCollision: the separator is left out of the prefix test.
DirectoryCollisionNoSep(fs, file) ==
  \E i \in 1..Len(fs) :
    /\ fs[i].path # file.path
    /\ \/ StartsWith(fs[i].path, file.path)
       \/ StartsWith(file.path, fs[i].path)

\* Mutant of DirectoryCollision: only the first scenario of the two is checked.
DirectoryCollisionOtherWay(fs, file) ==
  \E i \in 1..Len(fs) : StartsWith(fs[i].path, Append(file.path, PathSep))

DirectoryCollision(fs, file) ==
  \E i \in 1..Len(fs) :
    \/ StartsWith(fs[i].path, Append(file.path, PathSep))
    \/ StartsWith(file.path, Append(fs[i].path, PathSep))

\* Mutant of AddFile: a pending path is never replaced.
AddFileNeverReplaces(fs, file) ==
  IF file = NoFile THEN [files |-> fs, err |-> "EmptyFile"]
  ELSE IF file.path = PEmpty THEN [files |-> fs, err |-> "NoPathProperty"]
  ELSE IF FindIndex(fs, file.path) # 0 THEN [files |-> fs, err |-> "none"]
  ELSE IF DirectoryCollision(fs, file)
  THEN [files |-> fs, err |-> "DirectoryCollision"]
  ELSE [files |-> Append(fs, file), err |-> "none"]

AddFile(fs, file) ==
  IF file = NoFile THEN [files |-> fs, err |-> "EmptyFile"]
  ELSE IF file.path = PEmpty THEN [files |-> fs, err |-> "NoPathProperty"]
  ELSE LET idx == FindIndex(fs, file.path) IN
    IF idx # 0 /\ ~file.override THEN [files |-> fs, err |-> "none"]
    ELSE LET kept == IF idx # 0 THEN RemoveAt(fs, idx) ELSE fs IN
      IF DirectoryCollision(kept, file)
      THEN [files |-> kept, err |-> "DirectoryCollision"]
      ELSE [files |-> Append(kept, file), err |-> "none"]

\* Mutant of AddManyFiles: a file that throws undoes the files added before it.
RECURSIVE AddManyFilesOrNone(_, _)
AddManyFilesOrNone(fs, list) ==
  IF list = <<>> THEN [files |-> fs, err |-> "none"]
  ELSE LET r == AddFile(fs, Head(list)) IN
    IF r.err # "none" THEN r
    ELSE LET rest == AddManyFilesOrNone(r.files, Tail(list)) IN
      IF rest.err # "none" THEN [files |-> fs, err |-> rest.err] ELSE rest

RECURSIVE AddManyFiles(_, _)
AddManyFiles(fs, list) ==
  IF list = <<>> THEN [files |-> fs, err |-> "none"]
  ELSE LET r == AddFile(fs, Head(list)) IN
    IF r.err # "none" THEN r ELSE AddManyFiles(r.files, Tail(list))

\* Mutant of Includes: a pending request is never recognised.
IncludesNever(rm, obj) == FALSE

Includes(rm, obj) == \E i \in 1..Len(rm) : rm[i].oid = obj.oid

RemovePath(rm, obj) ==
  IF obj = NoFile THEN [remove |-> rm, err |-> "EmptyRemovePath"]
  ELSE IF Includes(rm, obj) THEN [remove |-> rm, err |-> "none"]
  ELSE [remove |-> Append(rm, obj), err |-> "none"]

RECURSIVE RemoveManyPaths(_, _)
RemoveManyPaths(rm, list) ==
  IF list = <<>> THEN [remove |-> rm, err |-> "none"]
  ELSE LET r == RemovePath(rm, Head(list)) IN
    IF r.err # "none" THEN r ELSE RemoveManyPaths(r.remove, Tail(list))

AddSymlink(sl, symlink) ==
  IF symlink.src = PEmpty THEN [symlinks |-> sl, err |-> "SymlinkSrcEmpty"]
  ELSE IF symlink.dest = PEmpty THEN [symlinks |-> sl, err |-> "SymlinkDestEmpty"]
  ELSE [symlinks |-> Append(sl, symlink), err |-> "none"]

RECURSIVE AddManySymlinks(_, _)
AddManySymlinks(sl, list) ==
  IF list = <<>> THEN [symlinks |-> sl, err |-> "none"]
  ELSE LET r == AddSymlink(sl, Head(list)) IN
    IF r.err # "none" THEN r ELSE AddManySymlinks(r.symlinks, Tail(list))

\* A change-set as a value: what merge receives.
Dtp(fs, rm, sl) == [files |-> fs, remove |-> rm, symlinks |-> sl]

NoDtp == [null |-> TRUE]

\* Mutant of Merge: the symlinks of the other change-set replace the pending ones.
MergeReplacesSymlinks(d, other) ==
  IF other = NoDtp THEN [dtp |-> d, err |-> "none"]
  ELSE LET f == AddManyFiles(d.files, other.files) IN
    IF f.err # "none" THEN [dtp |-> Dtp(f.files, d.remove, d.symlinks), err |-> f.err]
    ELSE LET r == RemoveManyPaths(d.remove, other.remove) IN
      IF r.err # "none" THEN [dtp |-> Dtp(f.files, r.remove, d.symlinks), err |-> r.err]
      ELSE LET sy == AddManySymlinks(<<>>, other.symlinks) IN
        [dtp |-> Dtp(f.files, r.remove, sy.symlinks), err |-> sy.err]

Merge(d, other) ==
  IF other = NoDtp THEN [dtp |-> d, err |-> "none"]
  ELSE LET f == AddManyFiles(d.files, other.files) IN
    IF f.err # "none" THEN [dtp |-> Dtp(f.files, d.remove, d.symlinks), err |-> f.err]
    ELSE LET r == RemoveManyPaths(d.remove, other.remove) IN
      IF r.err # "none" THEN [dtp |-> Dtp(f.files, r.remove, d.symlinks), err |-> r.err]
      ELSE LET s == AddManySymlinks(d.symlinks, other.symlinks) IN
        [dtp |-> Dtp(f.files, r.remove, s.symlinks), err |-> s.err]

\* path.join of a base and a relative path.
\* Mutant of Join: the base is not put before the path.
JoinNothing(base, p) == p

Join(base, p) ==
  IF p = <<>> THEN base
  ELSE IF base = <<>> THEN p
  ELSE base \o <<PathSep>> \o p

\* Position of the last separator of a path; 0 when it has none.
LastSep(p) ==
  IF \E i \in 1..Len(p) : p[i] = PathSep
  THEN CHOOSE i \in 1..Len(p) :
         p[i] = PathSep /\ \A j \in (i + 1)..Len(p) : p[j] # PathSep
  ELSE 0

\* file.base: the directory the file's path is relative to.
BaseOf(file) ==
  IF LastSep(file.path) = 0 THEN <<>>
  ELSE IF LastSep(file.path) = 1 THEN <<PathSep>>
  ELSE SubSeq(file.path, 1, LastSep(file.path) - 1)

\* file.relative: the path below the base.
RelativeOf(file) == SubSeq(file.path, LastSep(file.path) + 1, Len(file.path))

\* file.updatePaths({ newBase }): the path is the new base joined with the relative part.
UpdatePaths(file, newBase) ==
  [file EXCEPT !.path = Join(newBase, RelativeOf(file))]

\* Mutant of AssertRelative: nothing is refused.
AssertRelativeNothing(pathToCheck) == TRUE

\* _assertRelative: TRUE when it does not throw.
AssertRelative(pathToCheck) == ~IsAbsolute(pathToCheck)

\* Index of the first of n entries that makes a forEach throw; 0 when none does.
FirstThrow(n, Ok(_)) ==
  IF \A i \in 1..n : Ok(i) THEN 0
  ELSE CHOOSE i \in 1..n : ~Ok(i) /\ \A j \in 1..(i - 1) : Ok(j)

\* addBasePath: files, then symlinks, then removals, each entry checked and
\* rewritten in place; the entries before the one that throws stay rewritten.
AddBasePath(d, basePath) ==
  LET kf == FirstThrow(Len(d.files), LAMBDA i : AssertRelative(BaseOf(d.files[i])))
      ks == FirstThrow(Len(d.symlinks),
                       LAMBDA i : AssertRelative(d.symlinks[i].src)
                                    /\ AssertRelative(d.symlinks[i].dest))
      kr == FirstThrow(Len(d.remove), LAMBDA i : AssertRelative(d.remove[i].path))
      fs == [i \in 1..Len(d.files) |->
               IF kf = 0 \/ i < kf
               THEN UpdatePaths(d.files[i], Join(basePath, BaseOf(d.files[i])))
               ELSE d.files[i]]
      sl == [i \in 1..Len(d.symlinks) |->
               IF kf = 0 /\ (ks = 0 \/ i < ks)
               THEN [d.symlinks[i] EXCEPT !.src = Join(basePath, @),
                                          !.dest = Join(basePath, @)]
               ELSE d.symlinks[i]]
      rm == [i \in 1..Len(d.remove) |->
               IF kf = 0 /\ ks = 0 /\ (kr = 0 \/ i < kr)
               THEN [d.remove[i] EXCEPT !.path = Join(basePath, @)]
               ELSE d.remove[i]]
  IN [dtp |-> Dtp(fs, rm, sl),
      err |-> IF kf = 0 /\ ks = 0 /\ kr = 0 THEN "none" ELSE "NotRelative"]

\* Mutant of Validate: the symlinks are not looked at.
ValidateNoSymlinks(d) ==
  /\ \A i \in 1..Len(d.files) : IsAbsolute(d.files[i].path)
  /\ \A i \in 1..Len(d.remove) : IsAbsolute(d.remove[i].path)

\* _validate: every pending path is absolute.
Validate(d) ==
  /\ \A i \in 1..Len(d.files) : IsAbsolute(d.files[i].path)
  /\ \A i \in 1..Len(d.remove) : IsAbsolute(d.remove[i].path)
  /\ \A i \in 1..Len(d.symlinks) :
       IsAbsolute(d.symlinks[i].src) /\ IsAbsolute(d.symlinks[i].dest)

VARIABLES files, remove, symlinks, last, pc, target, rmSt, wrSt, slSt, tree,
          stored, bitMap, apc, cmd, cands, ci, warnings, added, aerr,
          nAddComponent, nWrite, adds,
          ipc, iopt, tasks

varsD == <<files, remove, symlinks, last, pc, target, rmSt, wrSt, slSt, tree>>

varsA == <<stored, bitMap, apc, cmd, cands, ci, warnings, added, aerr,
           nAddComponent, nWrite, adds>>

varsI == <<ipc, iopt, tasks>>

vars == <<varsD, varsA, varsI>>

\* No install is running.
NoOptions == [null |-> TRUE]

InitI ==
  /\ ipc = "idle"
  /\ iopt = NoOptions
  /\ tasks = <<>>

\* The change-sets merge is exercised with, each built through the operations.
OtherScripts ==
  { Dtp(<<[path |-> PBarFoo, contents |-> "c2", override |-> TRUE]>>,
        <<[oid |-> 1, path |-> PBar, removeItsDirIfEmpty |-> FALSE]>>,
        <<[src |-> PBar, dest |-> PBarn]>>),
    Dtp(<<[path |-> PBarn, contents |-> "c2", override |-> FALSE],
          [path |-> PBar, contents |-> "c1", override |-> FALSE]>>,
        <<[oid |-> 2, path |-> PBar, removeItsDirIfEmpty |-> TRUE]>>,
        <<>>),
    Dtp(<<[path |-> PRelFoo, contents |-> "c1", override |-> TRUE]>>,
        <<>>,
        <<[src |-> PRelBar, dest |-> PRelFoo]>>) }

Others ==
  { Merge(Dtp(<<>>, <<>>, <<>>), o).dtp : o \in OtherScripts } \cup {NoDtp}

Size(d) == Len(d.files) + Len(d.remove) + Len(d.symlinks)

This == Dtp(files, remove, symlinks)

Idle(n) == [i \in 1..n |-> "idle"]

InitD ==
  /\ files = <<>>
  /\ remove = <<>>
  /\ symlinks = <<>>
  /\ last = [op |-> "new", err |-> "none", arg |-> NoFile]
  /\ pc = "build"
  /\ target = "none"
  /\ rmSt = <<>>
  /\ wrSt = <<>>
  /\ slSt = <<>>
  /\ tree = <<>>

Built(op, arg, d, err) ==
  /\ Size(d) <= MaxPending
  /\ files' = d.files
  /\ remove' = d.remove
  /\ symlinks' = d.symlinks
  /\ last' = [op |-> op, err |-> err, arg |-> arg]
  /\ UNCHANGED <<varsA, varsI>> /\ UNCHANGED <<pc, target, rmSt, wrSt, slSt, tree>>

DoAddFile ==
  /\ pc = "build"
  /\ \E file \in FileInputs :
       LET r == AddFile(files, file) IN
         Built("addFile", file, Dtp(r.files, remove, symlinks), r.err)

DoRemovePath ==
  /\ pc = "build"
  /\ \E obj \in RemoveInputs :
       LET r == RemovePath(remove, obj) IN
         Built("removePath", obj, Dtp(files, r.remove, symlinks), r.err)

DoAddSymlink ==
  /\ pc = "build"
  /\ \E symlink \in SymlinkInputs :
       LET r == AddSymlink(symlinks, symlink) IN
         Built("addSymlink", symlink, Dtp(files, remove, r.symlinks), r.err)

DoMerge ==
  /\ pc = "build"
  /\ \E other \in Others :
       LET r == Merge(This, other) IN Built("merge", other, r.dtp, r.err)

\* addBasePath ends the building of a change-set: its owner builds it with
\* relative paths, rewrites them once it is complete, and commits.
PathsOf(d) ==
  {d.files[i].path : i \in 1..Len(d.files)}
    \cup {d.remove[i].path : i \in 1..Len(d.remove)}
    \cup {d.symlinks[i].src : i \in 1..Len(d.symlinks)}
    \cup {d.symlinks[i].dest : i \in 1..Len(d.symlinks)}

DoAddBasePath ==
  /\ pc \in {"build", "based"}
  /\ \E basePath \in BasePaths : \E r \in {AddBasePath(This, basePath)} :
       /\ \A p \in PathsOf(r.dtp) : Len(p) <= MaxPathLen
       /\ files' = r.dtp.files
       /\ remove' = r.dtp.remove
       /\ symlinks' = r.dtp.symlinks
       /\ last' = [op |-> "addBasePath", err |-> r.err, arg |-> [base |-> basePath]]
       /\ pc' = "based"
       /\ UNCHANGED <<varsA, varsI>> /\ UNCHANGED <<target, rmSt, wrSt, slSt, tree>>

(***************************************************************************)
(* Commit.  A task is idle until its phase dispatches it, then running     *)
(* until it settles as done or failed.  Promise.all over a batch is        *)
(* fulfilled once every task of the batch is done and rejected as soon as  *)
(* one has failed; the awaiting commit resumes in a later step.            *)
(***************************************************************************)
\* Mutant of Fulfilled: the batch counts as complete with its first finished task.
FulfilledByAny(st, batch) == batch = {} \/ \E i \in batch : st[i] = "done"

Fulfilled(st, batch) == \A i \in batch : st[i] = "done"

Rejected(st, batch) == \E i \in batch : st[i] = "failed"

\* Mutant of Outcome: the next phase does not wait for the batch.
OutcomeWithoutWaiting(st, batch) ==
  IF Rejected(st, batch) THEN "rejected" ELSE "fulfilled"

\* Mutant of Outcome: the batch is waited for to its end and its failures ignored.
OutcomeAllSettled(st, batch) ==
  IF \A i \in batch : st[i] \in {"done", "failed"} THEN "fulfilled" ELSE "pending"

\* await Promise.all(batch), as the awaiting commit sees it.
Outcome(st, batch) ==
  IF Rejected(st, batch) THEN "rejected"
  ELSE IF Fulfilled(st, batch) THEN "fulfilled"
  ELSE "pending"

\* What the tasks of a commit have left at the paths it removes and writes:
\* "before" while untouched, "absent" once removed, the contents once written.
Untouched(d) ==
  [p \in {d.files[i].path : i \in 1..Len(d.files)}
            \cup {d.remove[i].path : i \in 1..Len(d.remove)} |-> "before"]

\* A removal: the path and everything below it is gone.
Unlink(t, ps) ==
  [q \in DOMAIN t |->
     IF \E p \in ps : q = p \/ StartsWith(q, Append(p, PathSep)) THEN "absent" ELSE t[q]]

\* A write: the path holds the contents.
Output(t, file) == [t EXCEPT ![file.path] = file.contents]

Dispatch(st, batch) == [i \in 1..Len(st) |-> IF i \in batch THEN "running" ELSE st[i]]

\* _deletePathsFromFS: the removals handed to the recursive pruning pass.
PruneBatch == {i \in 1..Len(remove) : target = "fs" /\ remove[i].removeItsDirIfEmpty}

RestBatch == (1..Len(remove)) \ PruneBatch

\* Mutant of Prechecked: the capsule commit validates too.
PrecheckedBoth(tgt, d) == Validate(d)

\* Which commit runs _validate before its first phase.
Prechecked(tgt, d) == IF tgt = "fs" THEN Validate(d) ELSE TRUE

Begin(op, tgt) ==
  /\ pc \in {"build", "based"}
  /\ target' = tgt
  /\ wrSt' = Idle(Len(files))
  /\ slSt' = Idle(Len(symlinks))
  /\ tree' = Untouched(This)
  /\ UNCHANGED <<varsA, varsI>> /\ UNCHANGED <<files, remove, symlinks>>
  /\ IF ~Prechecked(tgt, This)
     THEN /\ pc' = "failed"
          /\ rmSt' = Idle(Len(remove))
          /\ last' = [op |-> op, err |-> "NotAbsolute", arg |-> NoFile]
     ELSE LET prune == {i \in 1..Len(remove) : tgt = "fs" /\ remove[i].removeItsDirIfEmpty} IN
          /\ last' = [op |-> op, err |-> "none", arg |-> NoFile]
          /\ IF prune # {}
             THEN pc' = "prune" /\ rmSt' = Dispatch(Idle(Len(remove)), prune)
             ELSE pc' = "remove" /\ rmSt' = Dispatch(Idle(Len(remove)), 1..Len(remove))

PersistAllToFS == Begin("persistAllToFS", "fs")

PersistAllToCapsule == Begin("persistAllToCapsule", "capsule")

Settle(ok) == IF ok THEN "done" ELSE "failed"

\* removeFilesAndEmptyDirsRecursively settles: one call for the whole batch.
PruneFinish ==
  /\ pc \notin {"build", "based"}
  /\ \E i \in PruneBatch : rmSt[i] = "running"
  /\ \E ok \in BOOLEAN :
       /\ rmSt' = [i \in 1..Len(rmSt) |-> IF i \in PruneBatch THEN Settle(ok) ELSE rmSt[i]]
       /\ tree' = IF ok THEN Unlink(tree, {remove[i].path : i \in PruneBatch}) ELSE tree
  /\ UNCHANGED <<varsA, varsI>> /\ UNCHANGED <<files, remove, symlinks, last, pc, target, wrSt, slSt>>

RemoveFinish ==
  /\ pc \notin {"build", "based"}
  /\ \E i \in RestBatch, ok \in BOOLEAN :
       /\ rmSt[i] = "running"
       /\ rmSt' = [rmSt EXCEPT ![i] = Settle(ok)]
       /\ tree' = IF ok THEN Unlink(tree, {remove[i].path}) ELSE tree
  /\ UNCHANGED <<varsA, varsI>> /\ UNCHANGED <<files, remove, symlinks, last, pc, target, wrSt, slSt>>

WriteFinish ==
  /\ \E i \in 1..Len(wrSt), ok \in BOOLEAN :
       /\ wrSt[i] = "running"
       /\ wrSt' = [wrSt EXCEPT ![i] = Settle(ok)]
       /\ tree' = IF ok THEN Output(tree, files[i]) ELSE tree
  /\ UNCHANGED <<varsA, varsI>> /\ UNCHANGED <<files, remove, symlinks, last, pc, target, rmSt, slSt>>

SymlinkFinish ==
  /\ \E i \in 1..Len(slSt), ok \in BOOLEAN :
       /\ slSt[i] = "running"
       /\ slSt' = [slSt EXCEPT ![i] = Settle(ok)]
  /\ UNCHANGED <<varsA, varsI>> /\ UNCHANGED <<files, remove, symlinks, last, pc, target, rmSt, wrSt, tree>>

Fail ==
  /\ pc' = "failed"
  /\ last' = [last EXCEPT !.err = "TaskFailed"]
  /\ UNCHANGED <<varsA, varsI>> /\ UNCHANGED <<files, remove, symlinks, target, rmSt, wrSt, slSt, tree>>

\* await removeFilesAndEmptyDirsRecursively(...) resumes.
AfterPrune ==
  /\ pc = "prune"
  /\ Outcome(rmSt, PruneBatch) # "pending"
  /\ IF Outcome(rmSt, PruneBatch) = "rejected" THEN Fail
     ELSE /\ pc' = "remove"
          /\ rmSt' = Dispatch(rmSt, RestBatch)
          /\ UNCHANGED <<varsA, varsI>>
          /\ UNCHANGED <<files, remove, symlinks, last, target, wrSt, slSt, tree>>

\* await of the removal batch resumes.
AfterRemove ==
  /\ pc = "remove"
  /\ Outcome(rmSt, RestBatch) # "pending"
  /\ IF Outcome(rmSt, RestBatch) = "rejected" THEN Fail
     ELSE /\ pc' = "write"
          /\ wrSt' = Dispatch(wrSt, 1..Len(wrSt))
          /\ UNCHANGED <<varsA, varsI>>
          /\ UNCHANGED <<files, remove, symlinks, last, target, rmSt, slSt, tree>>

\* await of the write batch resumes.
AfterWrite ==
  /\ pc = "write"
  /\ Outcome(wrSt, 1..Len(wrSt)) # "pending"
  /\ IF Outcome(wrSt, 1..Len(wrSt)) = "rejected" THEN Fail
     ELSE /\ pc' = "symlink"
          /\ slSt' = Dispatch(slSt, 1..Len(slSt))
          /\ UNCHANGED <<varsA, varsI>>
          /\ UNCHANGED <<files, remove, symlinks, last, target, rmSt, wrSt, tree>>

\* await of the symlink batch resumes.
AfterSymlink ==
  /\ pc = "symlink"
  /\ Outcome(slSt, 1..Len(slSt)) # "pending"
  /\ IF Outcome(slSt, 1..Len(slSt)) = "rejected" THEN Fail
     ELSE /\ pc' = "done"
          /\ UNCHANGED <<varsA, varsI>>
          /\ UNCHANGED <<files, remove, symlinks, last, target, rmSt, wrSt, slSt, tree>>

\* A change-set is committed once and discarded; the next operation builds a new one.
Discard ==
  /\ pc \in {"done", "failed"}
  /\ files' = <<>>
  /\ remove' = <<>>
  /\ symlinks' = <<>>
  /\ last' = [op |-> "new", err |-> "none", arg |-> NoFile]
  /\ pc' = "build"
  /\ target' = "none"
  /\ rmSt' = <<>>
  /\ wrSt' = <<>>
  /\ slSt' = <<>>
  /\ tree' = <<>>
  /\ UNCHANGED <<varsA, varsI>>

NextD ==
  \/ DoAddFile
  \/ DoRemovePath
  \/ DoAddSymlink
  \/ DoMerge
  \/ DoAddBasePath
  \/ PersistAllToFS
  \/ PersistAllToCapsule
  \/ PruneFinish
  \/ RemoveFinish
  \/ WriteFinish
  \/ SymlinkFinish
  \/ AfterPrune
  \/ AfterRemove
  \/ AfterWrite
  \/ AfterSymlink
  \/ Discard

(***************************************************************************)
(* Component ids.  An id string "scope/box/name@version" is its segments   *)
(* and its version; a BitId is the parsed id.  A segment is a name's       *)
(* dot-separated parts, as in a tree path.                                 *)
(***************************************************************************)
IdStr(segs, ver) == [segs |-> segs, ver |-> ver]

\* No id given (undefined).
NoId == IdStr(<<>>, "")

BitId(scope, box, name, version) ==
  [scope |-> scope, box |-> box, name |-> name, version |-> version]

\* BitId.parse
Parse(s) ==
  LET n == Len(s.segs) IN
    BitId(IF n >= 3 THEN s.segs[1] ELSE <<>>, s.segs[n - 1], s.segs[n], s.ver)

\* BitId.toString
IdToString(b) ==
  IdStr((IF b.scope # <<>> THEN <<b.scope>> ELSE <<>>) \o <<b.box, b.name>>, b.version)

ToStringWithoutVersion(b) ==
  IdStr((IF b.scope # <<>> THEN <<b.scope>> ELSE <<>>) \o <<b.box, b.name>>, "")

ToStringWithoutScopeAndVersion(b) == IdStr(<<b.box, b.name>>, "")

\* BitId.getValidBitId
GetValidBitId(box, name) == BitId(<<>>, box, name, "")

(***************************************************************************)
(* The component index (BitMap): id string -> entry.  The paths of an      *)
(* entry's files are kept tree-relative here; joining and stripping the    *)
(* entry's rootDir is the index's own encoding.                            *)
(***************************************************************************)
NoPath == <<>>

FileRec(p, t) == [relativePath |-> p, test |-> t, name |-> p[Len(p)]]

Entry(fs, main, origin, rootDir) ==
  [files |-> fs, mainFile |-> main, origin |-> origin, rootDir |-> rootDir]

Keys(bm) == DOMAIN bm

HasPath(e, p) == \E i \in 1..Len(e.files) : e.files[i].relativePath = p

\* bitMap.getComponentIdByPath: the id tracking the path, NoId when none does.
GetComponentIdByPath(bm, p) ==
  IF \E k \in Keys(bm) : HasPath(bm[k], p)
  THEN CHOOSE k \in Keys(bm) : HasPath(bm[k], p)
  ELSE NoId

SameBoxAndName(k, s) ==
  Parse(k).box = Parse(s).box /\ Parse(k).name = Parse(s).name

\* bitMap.getExistingComponentId: the exact id, else the tracked id with the
\* same namespace and name; NoId when there is none.
GetExistingComponentId(bm, s) ==
  IF s \in Keys(bm) THEN s
  ELSE IF \E k \in Keys(bm) : SameBoxAndName(k, s)
  THEN CHOOSE k \in Keys(bm) : SameBoxAndName(k, s)
  ELSE NoId

\* bitMap.getComponent(id, shouldThrow = false, includeSearchByBoxAndNameOnly):
\* the key of the entry found, NoId when none is.
GetComponentKey(bm, s, byBoxAndName) ==
  IF s \in Keys(bm) THEN s
  ELSE IF byBoxAndName THEN GetExistingComponentId(bm, s)
  ELSE NoId

\* Files of list whose path is not among those of fs.
RECURSIVE NewFiles(_, _)
NewFiles(fs, list) ==
  IF list = <<>> THEN <<>>
  ELSE With(Append(fs, Head(list)), LAMBDA seen :
       With(Tail(list), LAMBDA rest :
         IF \E i \in 1..Len(fs) : fs[i].relativePath = Head(list).relativePath
         THEN NewFiles(seen, rest) ELSE <<Head(list)>> \o NewFiles(seen, rest)))

\* bitMap.addComponent
AddComponent(bm, key, fs, main, origin, override) ==
  IF key \in Keys(bm)
  THEN [bm EXCEPT ![key] =
         [@ EXCEPT !.files = IF override THEN fs ELSE @ \o NewFiles(@, fs),
                   !.mainFile = IF main # NoPath THEN main ELSE @]]
  ELSE [k \in Keys(bm) \cup {key} |->
         IF k = key THEN Entry(fs, main, origin, NoPath) ELSE bm[k]]

(***************************************************************************)
(* The working tree.  A tree path is its segments; a segment is its        *)
(* dot-separated parts ("nm.spec.js" is <<"nm", "spec", "js">>).           *)
(***************************************************************************)
Dir(a, b) == << <<a>>, <<b>> >>

FileNm == << <<"bx">>, <<"nm", "js">> >>
FileNmSpec == << <<"bx">>, <<"nm", "spec", "js">> >>
DirNm == Dir("bx", "nm")
FileIndex == DirNm \o << <<"index", "js">> >>
FileLink == DirNm \o << <<"link", "js">> >>
FileUt == Dir("ix", "im") \o << <<"ut", "js">> >>
FileIgnored == << <<"bx">>, <<"ig", "js">> >>
FileMissing == << <<"no">>, <<"pe", "js">> >>
DirEmpty == Dir("em", "pt")

\* The files and the directories that exist.
TreeFiles == {FileNm, FileNmSpec, FileIndex, FileLink, FileUt, FileIgnored}

TreeDirs == {DirNm, DirEmpty}

\* Files matched by the ignore rules.
IgnoredFiles == {FileIgnored}

\* Files that carry the tool's auto-generated stamp (link files).
AutoGeneratedFiles == {FileLink}

ExistsSync(p) == p \in TreeFiles \cup TreeDirs

IsDir(p) == p \in TreeDirs

IsAutoGeneratedFile(p) == p \in AutoGeneratedFiles

IsPrefix(d, p) == Len(d) < Len(p) /\ SubSeq(p, 1, Len(d)) = d

\* A fixed enumeration order of the tree's files (what glob returns).
TreeOrder == <<FileNm, FileNmSpec, FileIndex, FileLink, FileUt, FileIgnored>>

\* glob(dir/**, nodir)
GlobDir(d) == LET Under(p) == IsPrefix(d, p) IN SelectSeq(TreeOrder, Under)

\* gitIgnore.filter
IgnoreFilter(seq) == LET Kept(p) == p \notin IgnoredFiles IN SelectSeq(seq, Kept)

\* path.resolve: the working tree is at /w.
Resolve(p) == << <<"w">> >> \o p

\* path.parse(p).name: the basename without its extension.
NameOf(p) ==
  LET base == p[Len(p)] IN IF Len(base) = 1 THEN base ELSE SubSeq(base, 1, Len(base) - 1)

Front(p) == SubSeq(p, 1, Len(p) - 1)

(***************************************************************************)
(* Path patterns (test files, excludes, main file).  A literal pattern is  *)
(* a path; "{PARENT}/{FILE_NAME}.spec.js" and "{PARENT}/index.js" are      *)
(* filled from the file they are applied to.                               *)
(***************************************************************************)
Lit(p) == [kind |-> "lit", path |-> p, parts |-> <<>>]

TplSpec == [kind |-> "name", path |-> <<>>, parts |-> <<"spec", "js">>]

TplIndex == [kind |-> "sibling", path |-> <<>>, parts |-> <<"index", "js">>]

NoPattern == [kind |-> "none", path |-> <<>>, parts |-> <<>>]

\* format(dsl, calculateFileInfo(file))
Format(dsl, file) ==
  IF dsl.kind = "lit" THEN dsl.path
  ELSE IF dsl.kind = "name" THEN Front(file) \o <<NameOf(file) \o dsl.parts>>
  ELSE Front(file) \o <<dsl.parts>>

\* REGEX_PATTERN: the pattern holds a placeholder.
IsDsl(dsl) == dsl.kind \in {"name", "sibling"}

\* R.uniq: the first occurrence of each element, in order.
Uniq(seq) ==
  With(seq, LAMBDA s :
    LET First(i) == \A j \in 1..(i - 1) : s[j] # s[i]
        firsts == {i \in 1..Len(s) : First(i)}
    IN [k \in 1..Cardinality(firsts) |->
         s[CHOOSE i \in firsts : Cardinality({j \in firsts : j < i}) = k - 1]])

\* glob(generatedFile, {ignore}) filtered by existsSync: the file, when it
\* exists and is not ignored.
GlobFile(p) == With(p, LAMBDA q : IF q \in TreeFiles \ IgnoredFiles THEN <<q>> ELSE <<>>)

RECURSIVE GetFilesOne(_, _)
GetFilesOne(fileList, dsl) ==
  IF fileList = <<>> THEN <<>>
  ELSE With(Tail(fileList), LAMBDA rest :
         GlobFile(Format(dsl, Head(fileList))) \o GetFilesOne(rest, dsl))

RECURSIVE GetFilesAll(_, _)
GetFilesAll(fileList, dsls) ==
  IF dsls = <<>> THEN <<>>
  ELSE With(Tail(dsls), LAMBDA rest :
         GetFilesOne(fileList, Head(dsls)) \o GetFilesAll(fileList, rest))

\* getFiles: the existing files the patterns yield for the given files.
GetFiles(fileList, dsls) == With(fileList, LAMBDA fl : Uniq(GetFilesAll(fl, dsls)))

(***************************************************************************)
(* addAction: from the command to the candidate components.                *)
(***************************************************************************)
NoErr == [kind |-> "none", ids |-> <<>>]

Err(kind, ids) == [kind |-> kind, ids |-> ids]

Candidate(id, fs, main) == [componentId |-> id, files |-> fs, mainFile |-> main]

Paths(fs) == [i \in 1..Len(fs) |-> fs[i].relativePath]

Records(ps, t) == [i \in 1..Len(ps) |-> FileRec(ps[i], t)]

\* updateIdAccordingToExistingComponent: the id to use, and whether it throws
\* because the existing component is a dependency (nested).
UpdateIdAccordingToExistingComponent(bm, currentId) ==
  With(GetExistingComponentId(bm, currentId), LAMBDA existing :
    [existing |-> existing,
     nested |-> existing # NoId /\ bm[existing].origin = "NESTED",
     parsedId |-> IF existing # NoId THEN Parse(existing) ELSE Parse(currentId)])

\* Mutant of MergeTestFilesWithFiles: the files come first in the union.
MergeFilesFirst(fs, tests) ==
  With(Records(IF tests # <<>> THEN GetFiles(Paths(fs), tests) ELSE <<>>, TRUE),
       LAMBDA resolvedTestFiles : fs \o NewFiles(fs, resolvedTestFiles))

\* mergeTestFilesWithFiles: unionBy(resolvedTestFiles, files, 'relativePath')
MergeTestFilesWithFiles(fs, tests) ==
  With(Records(IF tests # <<>> THEN GetFiles(Paths(fs), tests) ELSE <<>>, TRUE),
       LAMBDA resolvedTestFiles : resolvedTestFiles \o NewFiles(resolvedTestFiles, fs))

\* A pattern that matched nothing stays as it was written.
PatternAsPath(dsl) ==
  IF dsl.kind = "lit" THEN dsl.path ELSE << <<"{PARENT}">>, dsl.parts >>

FindRec(fs, p) ==
  IF \E i \in 1..Len(fs) : fs[i].relativePath = p
  THEN CHOOSE i \in 1..Len(fs) :
         fs[i].relativePath = p /\ \A j \in 1..(i - 1) : fs[j].relativePath # p
  ELSE 0

\* addMainFileToFiles: the loop over the files (forEach visits the files the
\* list had when it started).
RECURSIVE MainLoop(_, _, _)
MainLoop(todo, fs, mainFile) ==
  IF todo = <<>> THEN [files |-> fs, mainFile |-> mainFile]
  ELSE With(Format(mainFile, Head(todo).relativePath), LAMBDA generatedFile :
       With(Tail(todo), LAMBDA rest :
         IF FindRec(fs, generatedFile) # 0
         THEN MainLoop(rest, fs, Lit(generatedFile))
         ELSE IF generatedFile \in TreeFiles
         THEN With(Append(fs, FileRec(generatedFile, FALSE)), LAMBDA pushed :
                MainLoop(rest, pushed, Lit(generatedFile)))
         ELSE MainLoop(rest, fs, mainFile)))

AddMainFileToFiles(fs, main) ==
  IF main = NoPattern THEN [files |-> fs, mainFile |-> NoPath]
  ELSE With(IF IsDsl(main) THEN MainLoop(fs, fs, main) ELSE [files |-> fs, mainFile |-> main],
            LAMBDA r : [files |-> r.files, mainFile |-> PatternAsPath(r.mainFile)])

NoBitId == BitId(<<>>, <<>>, <<>>, "none")

NoCandidate == Candidate(NoBitId, <<>>, NoPath)

\* The default id of a directory: namespace (or the parent directory) and
\* the directory's name.
DefaultDirId(c, p) ==
  With(Resolve(p), LAMBDA splitPath :
    GetValidBitId(IF c.namespace # <<>> THEN c.namespace ELSE splitPath[Len(splitPath) - 1],
                  splitPath[Len(splitPath)]))

\* The default id of a file: namespace (or the file's directory) and the
\* file's name without its extension.
DefaultFileId(c, p) ==
  With(Front(Resolve(p)), LAMBDA dirName :
    GetValidBitId(IF c.namespace # <<>> THEN c.namespace ELSE dirName[Len(dirName)],
                  NameOf(p)))

\* Mutant of OneDir: a directory without files is a candidate without files.
OneDirNeverEmpty(c, p, parsedId) ==
  With(AddMainFileToFiles(
         MergeTestFilesWithFiles(Records(IgnoreFilter(GlobDir(p)), FALSE), c.tests), c.main),
       LAMBDA m :
         [err |-> NoErr,
          cand |-> Candidate(IF parsedId # NoBitId THEN parsedId ELSE DefaultDirId(c, p),
                             m.files, m.mainFile)])

\* A directory among the component paths (lines 285-322).
OneDir(c, p, parsedId) ==
  With(IgnoreFilter(GlobDir(p)), LAMBDA filteredMatches :
    IF filteredMatches = <<>>
    THEN [err |-> Err("EmptyDirectory", <<>>), cand |-> NoCandidate]
    ELSE With(AddMainFileToFiles(
                MergeTestFilesWithFiles(Records(filteredMatches, FALSE), c.tests), c.main),
              LAMBDA m :
                [err |-> NoErr,
                 cand |-> Candidate(IF parsedId # NoBitId THEN parsedId
                                    ELSE DefaultDirId(c, p),
                                    m.files, m.mainFile)]))

\* A file among the component paths (lines 323-346).
OneFile(bm, c, p, parsedId) ==
  With(UpdateIdAccordingToExistingComponent(bm, IdToString(DefaultFileId(c, p))),
       LAMBDA u :
    IF parsedId = NoBitId /\ u.nested
    THEN [err |-> Err("NestedOwnership", <<u.existing>>), cand |-> NoCandidate]
    ELSE With(AddMainFileToFiles(
                MergeTestFilesWithFiles(<<FileRec(p, FALSE)>>, c.tests), c.main),
              LAMBDA m :
                [err |-> NoErr,
                 cand |-> Candidate(IF parsedId # NoBitId THEN parsedId ELSE u.parsedId,
                                    m.files, m.mainFile)]))

\* One component path of addOneComponent; parsedId is the id fixed before it
\* (NoBitId when none is).
OnePath(bm, c, p, parsedId) ==
  IF IsDir(p) THEN OneDir(c, p, parsedId) ELSE OneFile(bm, c, p, parsedId)

RECURSIVE ConcatPaths(_)
ConcatPaths(mv) ==
  IF mv = <<>> THEN <<>>
  ELSE With(Tail(mv), LAMBDA rest : Paths(Head(mv).files) \o ConcatPaths(rest))

\* Mutant of RemoveExcludedFiles: an excluded main file is taken out like any other file.
RemoveExcludedKeepRest(mapValues, excludedList) ==
  With(GetFiles(ConcatPaths(mapValues), excludedList), LAMBDA resolved :
    LET Excluded(p) == \E i \in 1..Len(resolved) : resolved[i] = p
        Keep(rec) == ~Excluded(rec.relativePath)
    IN [i \in 1..Len(mapValues) |-> [mapValues[i] EXCEPT !.files = SelectSeq(@, Keep)]])

\* removeExcludedFiles
RemoveExcludedFiles(mapValues, excludedList) ==
  With(GetFiles(ConcatPaths(mapValues), excludedList), LAMBDA resolved :
    LET Excluded(p) == \E i \in 1..Len(resolved) : resolved[i] = p
        Keep(rec) == ~Excluded(rec.relativePath)
    IN [i \in 1..Len(mapValues) |->
         IF Excluded(mapValues[i].mainFile)
         THEN [mapValues[i] EXCEPT !.files = <<>>]
         ELSE [mapValues[i] EXCEPT !.files = SelectSeq(@, Keep)]])

\* Mutant of UnionByPath: a record keeps the fields of the first record of its path.
UnionFirstRecord(fs) ==
  With(Uniq(Paths(fs)), LAMBDA ps :
    [i \in 1..Len(ps) |-> fs[FindRec(fs, ps[i])]])

\* groupby(files, 'relativePath') and assignwith(..., (val1, val2) => val1 || val2):
\* one record per path, each field the first non-empty value.
UnionByPath(fs) ==
  With(Uniq(Paths(fs)), LAMBDA ps :
    [i \in 1..Len(ps) |->
       FileRec(ps[i], \E j \in 1..Len(fs) : fs[j].relativePath = ps[i] /\ fs[j].test)])

RECURSIVE ConcatFiles(_)
ConcatFiles(mv) ==
  IF mv = <<>> THEN <<>>
  ELSE With(Tail(mv), LAMBDA rest : Head(mv).files \o ConcatFiles(rest))

\* The rejection Promise.all reports: a throw before a callback's first await
\* (the ownership error of a file path) comes before every throw after one
\* (EmptyDirectory), and such throws come in the order of the paths.
FirstErr(errs) ==
  LET Early(i) == errs[i].kind = "NestedOwnership"
      Late(i) == errs[i] # NoErr
  IN IF \E i \in 1..Len(errs) : Early(i)
     THEN errs[CHOOSE i \in 1..Len(errs) : Early(i) /\ \A j \in 1..(i - 1) : ~Early(j)]
     ELSE IF \E i \in 1..Len(errs) : Late(i)
     THEN errs[CHOOSE i \in 1..Len(errs) : Late(i) /\ \A j \in 1..(i - 1) : ~Late(j)]
     ELSE NoErr

\* What addOneComponent returns for its values (lines 351-367).
OneComponent(c, values) ==
  With(IF c.exclude # <<>> THEN RemoveExcludedFiles(values, c.exclude) ELSE values,
       LAMBDA afterExclude :
  With(SelectSeq(afterExclude, LAMBDA mv : mv.files # <<>>), LAMBDA mapValues :
    IF Len(mapValues) = 0 THEN Candidate(afterExclude[1].componentId, <<>>, NoPath)
    ELSE IF Len(mapValues) = 1 THEN mapValues[1]
    ELSE Candidate(afterExclude[1].componentId,
                   UnionByPath(ConcatFiles(mapValues)),
                   mapValues[1].mainFile)))

\* addOneComponent for the given component paths: the error it ends with
\* and, when there is none, its candidate.
AddOneComponent(bm, c, paths) ==
  With(IF c.id # NoId THEN UpdateIdAccordingToExistingComponent(bm, c.id)
       ELSE [existing |-> NoId, nested |-> FALSE, parsedId |-> NoBitId],
       LAMBDA u :
    IF u.nested THEN [err |-> Err("NestedOwnership", <<u.existing>>), cand |-> NoCandidate]
    ELSE With([i \in 1..Len(paths) |-> OnePath(bm, c, paths[i], u.parsedId)], LAMBDA res :
         With(FirstErr([i \in 1..Len(res) |-> res[i].err]), LAMBDA err :
           IF err # NoErr THEN [err |-> err, cand |-> NoCandidate]
           ELSE IF paths = <<>> THEN [err |-> Err("TypeError", <<>>), cand |-> NoCandidate]
           ELSE [err |-> NoErr,
                 cand |-> OneComponent(c, [i \in 1..Len(res) |-> res[i].cand])])))

\* validateNoDuplicateIds: groupby(addComponents, 'componentId')
HasDuplicateIds(cs) ==
  \E i, j \in 1..Len(cs) :
    i # j /\ IdToString(cs[i].componentId) = IdToString(cs[j].componentId)

(***************************************************************************)
(* addAction: reconciling a candidate with the index.                      *)
(***************************************************************************)
\* The warnings object: a list of [id, paths], one item per id.
NoWarnings == <<>>

HasWarning(w, k) == \E i \in 1..Len(w) : w[i].id = k

\* warnings[k].push(p)
WarnPush(w, k, p) ==
  [i \in 1..Len(w) |-> IF w[i].id = k THEN [w[i] EXCEPT !.paths = Append(@, p)] ELSE w[i]]

\* warnings[k] = [p]
WarnSet(w, k, p) ==
  IF HasWarning(w, k)
  THEN [i \in 1..Len(w) |-> IF w[i].id = k THEN [w[i] EXCEPT !.paths = <<p>>] ELSE w[i]]
  ELSE Append(w, [id |-> k, paths |-> <<p>>])

\* Mutant of GroupKey: the index is not asked who tracks the file.
GroupKeyOwn(bm, componentId, p) == IdToString(componentId)

\* groupFilesByComponentId: the id a file is grouped under.
GroupKey(bm, componentId, p) ==
  LET bitMapComponentId == GetComponentIdByPath(bm, p) IN
    IF bitMapComponentId # NoId THEN bitMapComponentId ELSE IdToString(componentId)

GroupKeys(bm, componentId, fs) ==
  Uniq([i \in 1..Len(fs) |-> GroupKey(bm, componentId, fs[i].relativePath)])

GroupFiles(bm, componentId, fs, key) ==
  LET InGroup(rec) == GroupKey(bm, componentId, rec.relativePath) = key
  IN SelectSeq(fs, InGroup)

\* Mutant of IdAccepted: any id with the tracked namespace and name passes.
IdAcceptedByName(parsedBitId, id) == SameBoxAndName(IdToString(parsedBitId), id)

\* The id given for an imported component is one of the two accepted forms.
IdAccepted(parsedBitId, id) ==
  \/ ToStringWithoutScopeAndVersion(parsedBitId) = id
  \/ ToStringWithoutVersion(parsedBitId) = id

\* One file of a group whose component is in the index (lines 110-137):
\* what the loop has so far, after the file.
FoundFile(bm, key, entry, id, file, acc) ==
  With(Parse(key), LAMBDA parsedBitId :
  With(FindRec(entry.files, file.relativePath), LAMBDA idx :
    IF IsAutoGeneratedFile(file.relativePath) THEN acc
    ELSE IF entry.rootDir # NoPath /\ id = NoId
    THEN [acc EXCEPT !.err = Err("MissingId", <<ToStringWithoutVersion(parsedBitId)>>)]
    ELSE IF entry.rootDir # NoPath /\ ~IdAccepted(parsedBitId, id)
    THEN [acc EXCEPT !.err = Err("IncorrectId", <<ToStringWithoutVersion(parsedBitId), id>>)]
    ELSE IF entry.rootDir # NoPath /\ idx # 0
    THEN [acc EXCEPT !.files = Append(@, entry.files[idx])]
    ELSE IF GetComponentIdByPath(bm, file.relativePath) # IdToString(parsedBitId)
    THEN [acc EXCEPT !.files = Append(@, file),
                     !.warnings = IF HasWarning(@, key)
                                  THEN WarnPush(@, key, file.relativePath)
                                  ELSE WarnSet(@, key, file.relativePath)]
    ELSE [acc EXCEPT !.files = Append(@, file)]))

\* The files of a group whose component is in the index: the loop stops at
\* the first throw.
RECURSIVE FoundFiles(_, _, _, _, _, _)
FoundFiles(bm, key, entry, id, todo, acc) ==
  IF todo = <<>> \/ acc.err # NoErr THEN acc
  ELSE With(FoundFile(bm, key, entry, id, Head(todo), acc), LAMBDA next :
       With(Tail(todo), LAMBDA rest : FoundFiles(bm, key, entry, id, rest, next)))

\* One file of a group whose id is not in the index (lines 147-155).
NewComponentFile(bm, key, file, acc) ==
  With(GetComponentIdByPath(bm, file.relativePath), LAMBDA bitMapid :
    IF bitMapid = NoId THEN [acc EXCEPT !.files = Append(@, file)]
    ELSE IF HasWarning(acc.warnings, key)
    THEN IF HasWarning(acc.warnings, bitMapid)
         THEN [acc EXCEPT !.warnings = WarnPush(@, bitMapid, file.relativePath)]
         ELSE [acc EXCEPT !.err = Err("TypeError", <<>>)]
    ELSE [acc EXCEPT !.warnings = WarnSet(@, bitMapid, file.relativePath)])

RECURSIVE NewComponentFiles(_, _, _, _)
NewComponentFiles(bm, key, todo, acc) ==
  IF todo = <<>> \/ acc.err # NoErr THEN acc
  ELSE With(NewComponentFile(bm, key, Head(todo), acc), LAMBDA next :
       With(Tail(todo), LAMBDA rest : NewComponentFiles(bm, key, rest, next)))

\* Mutant of ResolvedId: the id is used as it was grouped, not as the index has it.
ResolvedIdAsGiven(bm, key) == Parse(key)

\* The id a found component is added under (lines 139-142).
ResolvedId(bm, key) ==
  With(GetExistingComponentId(bm, key), LAMBDA locatedIDFromBitMap :
    IF locatedIDFromBitMap # NoId THEN Parse(locatedIDFromBitMap) ELSE Parse(key))

\* addToBitMap: the index after addComponent, and what is returned.
AddToBitMap(bm, componentId, fs, mainFile, override) ==
  With(IdToString(componentId), LAMBDA k :
  With(AddComponent(bm, k, fs, mainFile, "AUTHORED", override), LAMBDA next :
    [bm |-> next,
     result |-> [id |-> k, files |-> next[GetComponentKey(next, k, FALSE)].files]]))

\* The state of addOrUpdateExistingComponentsInBitMap after a group was
\* added: component.files and component.componentId have been reassigned.
Added(st, componentId, fs, override) ==
  With(AddToBitMap(st.bm, componentId, fs, st.comp.mainFile, override), LAMBDA a :
    [st EXCEPT !.bm = a.bm,
               !.comp = Candidate(componentId, fs, @.mainFile),
               !.added = Append(@, a.result),
               !.nAdd = @ + 1])

\* One group of addOrUpdateExistingComponentsInBitMap (lines 100-158).
ReconcileGroup(key, fs, c, st) ==
  With(GetComponentKey(st.bm, key, TRUE), LAMBDA found :
  With([files |-> <<>>, warnings |-> st.warnings, err |-> NoErr], LAMBDA start :
    IF found # NoId
    THEN With(FoundFiles(st.bm, key, st.bm[found], c.id, fs, start), LAMBDA r :
           IF r.err # NoErr THEN [st EXCEPT !.err = r.err, !.warnings = r.warnings]
           ELSE Added([st EXCEPT !.warnings = r.warnings], ResolvedId(st.bm, key),
                      r.files, c.override))
    ELSE With(NewComponentFiles(st.bm, key, fs, start), LAMBDA r :
           IF r.err # NoErr THEN [st EXCEPT !.err = r.err, !.warnings = r.warnings]
           ELSE IF r.files = <<>>
           THEN [st EXCEPT !.comp = Candidate(@.componentId, r.files, @.mainFile),
                           !.warnings = r.warnings]
           ELSE Added([st EXCEPT !.warnings = r.warnings], st.comp.componentId,
                      r.files, c.override))))

\* The groups one after the other; a throw ends the loop.
RECURSIVE ReconcileGroups(_, _, _, _)
ReconcileGroups(keys, groups, c, st) ==
  IF keys = <<>> \/ st.err # NoErr THEN st
  ELSE With(ReconcileGroup(Head(keys), groups[Head(keys)], c, st), LAMBDA next :
       With(Tail(keys), LAMBDA rest : ReconcileGroups(rest, groups, c, next)))

\* addOrUpdateExistingComponentsInBitMap: the index, the warnings, what was
\* added and the number of addComponent calls, and the error if it throws.
AddOrUpdateExistingComponentsInBitMap(bm, w, c, component) ==
  With(GroupKeys(bm, component.componentId, component.files), LAMBDA keys :
  With([k \in {keys[i] : i \in 1..Len(keys)} |->
          GroupFiles(bm, component.componentId, component.files, k)], LAMBDA groups :
    ReconcileGroups(keys, groups, c,
      [bm |-> bm, comp |-> component, warnings |-> w, added |-> <<>>,
       err |-> NoErr, nAdd |-> 0])))

(***************************************************************************)
(* addAction: the command, from its paths to its candidates.               *)
(***************************************************************************)
Command(paths, id, tests, exclude, main, override) ==
  [paths |-> paths, id |-> id, namespace |-> <<>>, tests |-> tests,
   exclude |-> exclude, main |-> main, override |-> override]

NoCommand == Command(<<>>, NoId, <<>>, <<>>, NoPattern, FALSE)

\* getMissingTestFiles: the test paths written out in full that do not exist.
GetMissingTestFiles(tests) ==
  LET Missing(dsl) == ~IsDsl(dsl) /\ ~ExistsSync(dsl.path) IN SelectSeq(tests, Missing)

\* glob(componentPath) for each path: a path that does not exist yields nothing.
GlobPaths(paths) == SelectSeq(paths, ExistsSync)

\* The ids that more than one candidate has.
DuplicateIds(cs) ==
  With([i \in 1..Len(cs) |-> IdToString(cs[i].componentId)], LAMBDA ids :
    SelectSeq(Uniq(ids),
              LAMBDA k : \E i, j \in 1..Len(ids) : i # j /\ ids[i] = k /\ ids[j] = k))

\* The paths the command resolves to (lines 387-411): componentPathsStats.
ComponentPathsStats(c) ==
  With(GlobPaths(c.paths), LAMBDA without :
  With(IgnoreFilter(without), LAMBDA withIgnore :
  With(SelectSeq(c.tests, LAMBDA dsl : ~IsDsl(dsl)), LAMBDA given :
    IF GetMissingTestFiles(c.tests) # <<>>
    THEN [err |-> Err("PathNotExists", <<>>), paths |-> <<>>]
    ELSE IF c.tests # <<>> /\ c.id # NoId /\ without = <<>>
    THEN [err |-> NoErr, paths |-> Uniq(GlobPaths([i \in 1..Len(given) |-> given[i].path]))]
    ELSE IF without = <<>> THEN [err |-> Err("PathNotExists", <<>>), paths |-> <<>>]
    ELSE IF withIgnore = <<>> THEN [err |-> Err("NoFiles", <<>>), paths |-> <<>>]
    ELSE [err |-> NoErr, paths |-> Uniq(withIgnore)])))

\* The paths of several components that are left once those that are test
\* files of the others are taken out (lines 417-418).
WithoutTests(c, paths) ==
  With(IF c.tests # <<>> THEN GetFiles(paths, c.tests) ELSE <<>>, LAMBDA testToRemove :
    SelectSeq(paths, LAMBDA q : \A i \in 1..Len(testToRemove) : testToRemove[i] # q))

\* The candidates of several components (lines 415-429).
ManyCandidates(bm, c, paths) ==
  With(WithoutTests(c, paths), LAMBDA each :
  With([i \in 1..Len(each) |-> AddOneComponent(bm, c, <<each[i]>>)], LAMBDA many :
  With(FirstErr([i \in 1..Len(many) |-> many[i].err]), LAMBDA err :
  With([i \in 1..Len(many) |-> many[i].cand], LAMBDA addedComponents :
    IF err # NoErr THEN [err |-> err, cands |-> <<>>]
    ELSE IF HasDuplicateIds(addedComponents)
    THEN [err |-> Err("DuplicateIds", DuplicateIds(addedComponents)), cands |-> <<>>]
    ELSE [err |-> NoErr, cands |-> addedComponents]))))

\* The candidates of the command (lines 413-446), or the error that ends it
\* before any candidate is reconciled.
Candidates(bm, c) ==
  With(ComponentPathsStats(c), LAMBDA stats :
    IF stats.err # NoErr THEN [err |-> stats.err, cands |-> <<>>]
    ELSE IF Len(stats.paths) > 1 /\ c.id = NoId
    THEN ManyCandidates(bm, c, stats.paths)
    ELSE With(AddOneComponent(bm, c, stats.paths), LAMBDA one :
           IF one.err # NoErr THEN [err |-> one.err, cands |-> <<>>]
           ELSE [err |-> NoErr, cands |-> <<one.cand>>]))

(***************************************************************************)
(* The index as it is stored when the tool starts, and the commands.       *)
(***************************************************************************)
Seg(a) == <<a>>

IdImported == IdStr(<<Seg("sc"), Seg("ix"), Seg("im")>>, "1")

IdVersioned == IdStr(<<Seg("sc"), Seg("bx"), Seg("nm")>>, "1")

IdBxNm == IdStr(<<Seg("bx"), Seg("nm")>>, "")

IdIxIm == IdStr(<<Seg("ix"), Seg("im")>>, "")

IdScIxIm == IdStr(<<Seg("sc"), Seg("ix"), Seg("im")>>, "")

IdNew == IdStr(<<Seg("zz"), Seg("nw")>>, "")

FileDep == Dir("dp", "nm") \o << <<"index", "js">> >>

\* An imported component: its files are under its rootDir.
EntryImported == Entry(<<FileRec(FileUt, FALSE)>>, FileUt, "IMPORTED", Dir("ix", "im"))

\* A dependency written by an import.
EntryNested == Entry(<<FileRec(FileDep, FALSE)>>, FileDep, "NESTED", Dir("dp", "nm"))

\* An authored component that has been exported: its id has a scope and a version.
EntryExported == Entry(<<FileRec(FileNm, FALSE)>>, FileNm, "AUTHORED", NoPath)

BitMapOf(ids, entries) ==
  [k \in {ids[i] : i \in 1..Len(ids)} |->
     entries[CHOOSE i \in 1..Len(ids) : ids[i] = k]]

\* A workspace in which nothing is tracked yet.
EmptyBitMap == BitMapOf(<<>>, <<>>)

Worlds ==
  { EmptyBitMap,
    BitMapOf(<<IdImported>>, <<EntryImported>>),
    BitMapOf(<<IdImported, IdVersioned>>, <<EntryImported, EntryNested>>),
    BitMapOf(<<IdImported, IdVersioned>>, <<EntryImported, EntryExported>>) }

Commands ==
  { Command(<<FileNm>>, NoId, <<>>, <<>>, NoPattern, FALSE),
    Command(<<FileNm>>, NoId, <<>>, <<>>, NoPattern, TRUE),
    Command(<<FileNm>>, NoId, <<TplSpec>>, <<>>, NoPattern, FALSE),
    Command(<<FileNm>>, IdNew, <<>>, <<>>, NoPattern, FALSE),
    Command(<<FileNm>>, IdIxIm, <<>>, <<>>, NoPattern, FALSE),
    Command(<<DirNm>>, NoId, <<>>, <<>>, NoPattern, FALSE),
    Command(<<DirNm>>, NoId, <<>>, <<>>, TplIndex, FALSE),
    Command(<<DirNm>>, NoId, <<>>, <<Lit(FileIndex)>>, NoPattern, FALSE),
    Command(<<DirNm, FileNm>>, NoId, <<>>, <<>>, NoPattern, FALSE),
    Command(<<FileNm, FileNmSpec>>, NoId, <<>>, <<>>, NoPattern, FALSE),
    Command(<<FileNm, FileNmSpec>>, IdBxNm, <<>>, <<>>, NoPattern, TRUE),
    Command(<<FileNm, FileUt>>, NoId, <<Lit(FileNmSpec)>>, <<>>, NoPattern, FALSE),
    Command(<<FileNm, FileUt>>, IdNew, <<>>, <<>>, NoPattern, FALSE),
    Command(<<FileUt>>, NoId, <<>>, <<>>, NoPattern, FALSE),
    Command(<<FileUt>>, IdBxNm, <<>>, <<>>, NoPattern, FALSE),
    Command(<<FileUt>>, IdIxIm, <<>>, <<>>, NoPattern, FALSE),
    Command(<<FileUt>>, IdScIxIm, <<>>, <<>>, NoPattern, FALSE),
    Command(<<FileUt>>, IdImported, <<>>, <<>>, NoPattern, FALSE),
    Command(<<FileMissing>>, NoId, <<>>, <<>>, NoPattern, FALSE),
    Command(<<FileMissing>>, IdNew, <<Lit(FileNmSpec)>>, <<>>, NoPattern, FALSE),
    Command(<<FileIgnored>>, NoId, <<>>, <<>>, NoPattern, FALSE),
    Command(<<DirEmpty, FileNm>>, NoId, <<>>, <<>>, NoPattern, FALSE),
    Command(<<DirEmpty>>, NoId, <<>>, <<>>, NoPattern, FALSE),
    Command(<<FileNm>>, NoId, <<Lit(FileMissing)>>, <<>>, NoPattern, FALSE),
    Command(<<FileMissing, FileNm>>, NoId, <<>>, <<>>, NoPattern, FALSE),
    Command(<<FileNm>>, NoId, <<>>, <<Lit(FileNm)>>, NoPattern, FALSE),
    Command(<<FileNmSpec, FileNm>>, IdNew, <<TplSpec>>, <<>>, NoPattern, FALSE),
    Command(<<DirNm>>, NoId, <<>>, <<Lit(FileIndex)>>, TplIndex, FALSE),
    Command(<<DirNm, FileIndex>>, NoId, <<Lit(FileIndex)>>, <<>>, NoPattern, FALSE),
    Command(<<FileNm, FileNmSpec>>, IdBxNm, <<>>, <<Lit(FileNm)>>, NoPattern, FALSE) }

(***************************************************************************)
(* addAction as a state machine.  stored is the index on disk, bitMap the  *)
(* index in memory; apc is where the invocation stands: "idle", then       *)
(* "reconcile" while the candidates are added one after the other, then    *)
(* "done" or "failed".                                                     *)
(***************************************************************************)
InitA ==
  /\ stored \in Worlds
  /\ bitMap = stored
  /\ apc = "idle"
  /\ cmd = NoCommand
  /\ cands = <<>>
  /\ ci = 1
  /\ warnings = NoWarnings
  /\ added = <<>>
  /\ aerr = NoErr
  /\ nAddComponent = 0
  /\ nWrite = 0
  /\ adds = 0

\* The change-set of a workspace in which no add is running.
InitChangeSet ==
  /\ InitD
  /\ InitI
  /\ stored = EmptyBitMap
  /\ bitMap = stored
  /\ apc = "idle"
  /\ cmd = NoCommand
  /\ cands = <<>>
  /\ ci = 1
  /\ warnings = NoWarnings
  /\ added = <<>>
  /\ aerr = NoErr
  /\ nAddComponent = 0
  /\ nWrite = 0
  /\ adds = 0

InitAdd == InitD /\ InitA /\ InitI

\* addAction is called: loadConsumer reads the index, the paths are checked
\* and the candidates are built (up to line 429 or 441).
AddStart ==
  /\ apc = "idle"
  /\ adds < MaxAdds
  /\ \E c \in Commands : \E r \in {Candidates(stored, c)} :
         /\ cmd' = c
         /\ bitMap' = stored
         /\ cands' = r.cands
         /\ aerr' = r.err
         /\ apc' = IF r.err # NoErr THEN "failed" ELSE "reconcile"
  /\ ci' = 1
  /\ warnings' = NoWarnings
  /\ added' = <<>>
  /\ nAddComponent' = 0
  /\ nWrite' = 0
  /\ adds' = adds + 1
  /\ UNCHANGED stored
  /\ UNCHANGED <<varsD, varsI>>

\* Mutant of LoopDone: the index is written once the first candidate is in.
LoopDoneEarly(i, cs) == i > 1

\* The loop over the candidates has ended (lines 430-435, 442-445).
LoopDone(i, cs) == i > Len(cs)

\* One candidate is reconciled with the index (lines 431-434, 442-445).
ReconcileNext ==
  /\ apc = "reconcile"
  /\ ~LoopDone(ci, cands)
  /\ \E r \in {IF cands[ci].files = <<>> THEN NoErr
               ELSE AddOrUpdateExistingComponentsInBitMap(bitMap, warnings, cmd, cands[ci])} :
        IF cands[ci].files = <<>>
        THEN /\ ci' = ci + 1
             /\ UNCHANGED <<bitMap, warnings, added, aerr, apc, nAddComponent>>
        ELSE IF r.err # NoErr
        THEN /\ apc' = "failed"
             /\ aerr' = r.err
             /\ warnings' = r.warnings
             /\ bitMap' = r.bm
             /\ nAddComponent' = nAddComponent + r.nAdd
             /\ UNCHANGED <<ci, added>>
        ELSE /\ ci' = ci + 1
             /\ bitMap' = r.bm
             /\ warnings' = r.warnings
             /\ added' = Append(added, r.added)
             /\ nAddComponent' = nAddComponent + r.nAdd
             /\ UNCHANGED <<aerr, apc>>
  /\ UNCHANGED <<stored, cmd, cands, nWrite, adds>>
  /\ UNCHANGED <<varsD, varsI>>

\* await bitMap.write() (line 447), and the return.
Persist ==
  /\ apc = "reconcile"
  /\ LoopDone(ci, cands)
  /\ stored' = bitMap
  /\ nWrite' = nWrite + 1
  /\ apc' = "done"
  /\ UNCHANGED <<bitMap, cmd, cands, ci, warnings, added, aerr, nAddComponent, adds>>
  /\ UNCHANGED <<varsD, varsI>>

\* The process ends; the next invocation starts from the index on disk.
AddReturn ==
  /\ apc \in {"done", "failed"}
  /\ apc' = "idle"
  /\ bitMap' = stored
  /\ cmd' = NoCommand
  /\ cands' = <<>>
  /\ ci' = 1
  /\ warnings' = NoWarnings
  /\ added' = <<>>
  /\ aerr' = NoErr
  /\ nAddComponent' = 0
  /\ nWrite' = 0
  /\ UNCHANGED <<stored, adds>>
  /\ UNCHANGED <<varsD, varsI>>

NextA ==
  \/ AddStart
  \/ ReconcileNext
  \/ Persist
  \/ AddReturn

SpecChangeSet == InitChangeSet /\ [][NextD]_vars

SpecAdd == InitAdd /\ [][NextA]_vars

(***************************************************************************)
(* Properties of the change-set and of its commit.                         *)
(***************************************************************************)
AllIdle ==
  /\ \A i \in 1..Len(rmSt) : rmSt[i] = "idle"
  /\ \A i \in 1..Len(wrSt) : wrSt[i] = "idle"
  /\ \A i \in 1..Len(slSt) : slSt[i] = "idle"

NotAbs(p) == p = <<>> \/ p[1] # "/"

SomePathNotAbsolute ==
  \/ \E i \in 1..Len(files) : NotAbs(files[i].path)
  \/ \E i \in 1..Len(remove) : NotAbs(remove[i].path)
  \/ \E i \in 1..Len(symlinks) : NotAbs(symlinks[i].src) \/ NotAbs(symlinks[i].dest)

\* C1: in a commit to either target, a write task has been dispatched only
\* when every removal task is done, and a symlink task only when every
\* removal and every write task is done, whatever the order in which the
\* tasks of a phase settle.
C1_PhaseOrder ==
  /\ (\E i \in 1..Len(wrSt) : wrSt[i] # "idle")
       => \A j \in 1..Len(rmSt) : rmSt[j] = "done"
  /\ (\E i \in 1..Len(slSt) : slSt[i] # "idle")
       => /\ \A j \in 1..Len(rmSt) : rmSt[j] = "done"
          /\ \A j \in 1..Len(wrSt) : wrSt[j] = "done"

\* A local commit with a pruning pass and an independent removal behind it has
\* dispatched a write.
C1_Witness ==
  /\ target = "fs"
  /\ \E i, j \in 1..Len(remove) :
       remove[i].removeItsDirIfEmpty /\ ~remove[j].removeItsDirIfEmpty
  /\ \E i \in 1..Len(wrSt) : wrSt[i] = "running"

NoAncestorPairs ==
  \A i, j \in 1..Len(files) : ~IsAncestorDir(files[i].path, files[j].path)

\* C2: an addFile of a path that has a directory-ancestor or a
\* directory-descendant among the pending writes ends with the collision
\* error, and in every state reached through addFile and merge, failed calls
\* included, no pending write is a directory-ancestor of another.
C2_DirectoryCollision ==
  /\ []NoAncestorPairs
  /\ [][(/\ last'.op = "addFile"
          /\ last'.arg # NoFile
          /\ last'.arg.path # <<>>
          /\ \E i \in 1..Len(files) : InAncestorRelation(files[i].path, last'.arg.path))
         => last'.err = "DirectoryCollision"]_vars

\* "bar" was refused while "bar/foo" was pending.
C2_Witness ==
  /\ last.op = "addFile"
  /\ last.err = "DirectoryCollision"
  /\ last.arg.path = PBar
  /\ \E i \in 1..Len(files) : files[i].path = PBarFoo

\* C3: a local commit with a pending path that is not absolute has failed with
\* the not-absolute error and no removal, write or symlink task has been
\* dispatched.
C3_ValidateBeforeEffects ==
  (target = "fs" /\ SomePathNotAbsolute)
    => (pc = "failed" /\ last.err = "NotAbsolute" /\ AllIdle)

\* The commit was refused for a symlink destination alone.
C3_Witness ==
  /\ target = "fs"
  /\ pc = "failed"
  /\ last.err = "NotAbsolute"
  /\ Len(files) >= 1
  /\ Len(remove) >= 1
  /\ \A i \in 1..Len(files) : ~NotAbs(files[i].path)
  /\ \A i \in 1..Len(remove) : ~NotAbs(remove[i].path)
  /\ \E i \in 1..Len(symlinks) : NotAbs(symlinks[i].dest)

HasPending(fs, p) == \E i \in 1..Len(fs) : fs[i].path = p

\* C11: an addFile of a path that is already pending, without override, is
\* dropped without an error and leaves the pending writes as they were; with
\* override it ends with the new file as the one pending write of that path,
\* every other pending write kept.
C11_AddFileAgain ==
  [][(/\ last'.op = "addFile"
      /\ last'.arg # NoFile
      /\ HasPending(files, last'.arg.path))
     => /\ last'.err = "none"
        /\ IF last'.arg.override
           THEN /\ Len(files') = Len(files)
                /\ \A i \in 1..Len(files') :
                     (files'[i].path = last'.arg.path) <=> (files'[i] = last'.arg)
                /\ \E i \in 1..Len(files') : files'[i] = last'.arg
                /\ \A i \in 1..Len(files) :
                     files[i].path # last'.arg.path
                       => \E j \in 1..Len(files') : files'[j] = files[i]
           ELSE files' = files]_vars

\* A second addFile of a pending path, with other contents and no override,
\* left the first contents pending.
C11_Witness ==
  /\ last.op = "addFile"
  /\ last.err = "none"
  /\ last.arg # NoFile
  /\ ~last.arg.override
  /\ last.arg.contents = "c2"
  /\ \E i \in 1..Len(files) :
       files[i].path = last.arg.path /\ files[i].contents = "c1"

\* C12: no two pending writes have the same path.
C12_SetLikeByPath ==
  \A i, j \in 1..Len(files) : files[i].path = files[j].path => i = j

\* A merge brought a write of a path that was pending with other contents.
C12_Witness ==
  /\ last.op = "merge"
  /\ last.arg # NoDtp
  /\ Len(files) = 2
  /\ \E i \in 1..Len(last.arg.files) :
       /\ last.arg.files[i].path = files[1].path
       /\ last.arg.files[i].contents # files[1].contents

Range(s) == {s[i] : i \in 1..Len(s)}

\* The insertion orders of a set of files.
Orders(S) == {s \in [1..Cardinality(S) -> S] : Range(s) = S}

\* What a list of pending writes will write: path and contents.
Written(fs) == {[path |-> fs[i].path, contents |-> fs[i].contents] : i \in 1..Len(fs)}

WrittenOf(S) == {[path |-> x.path, contents |-> x.contents] : x \in S}

\* The files handed to addFile so far that are pending, and the last one handed.
Inserted ==
  Range(files) \cup
    (IF last.op = "addFile" /\ last.arg # NoFile /\ last.arg # PathlessVinyl
     THEN {last.arg} ELSE {})

NoAncestorIn(S) == \A a, b \in S : ~IsAncestorDir(a.path, b.path)

DistinctPathsIn(S) == \A a, b \in S : a.path = b.path => a = b

\* C13 as stated: a set of files without ancestor/descendant paths is inserted
\* into an empty change-set without an error in every order, and every order
\* leaves the same pending writes (path and contents).
C13_AnyOrder ==
  (pc = "build" /\ NoAncestorIn(Inserted)) =>
    \A s \in Orders(Inserted) :
      /\ AddManyFiles(<<>>, s).err = "none"
      /\ Written(AddManyFiles(<<>>, s).files)
           = Written(AddManyFiles(<<>>, CHOOSE t \in Orders(Inserted) : TRUE).files)

\* C13 as amended: the same for a set of files with pairwise distinct paths;
\* every order leaves exactly the files of the set pending.
C13_AnyOrderDistinctPaths ==
  (pc = "build" /\ NoAncestorIn(Inserted) /\ DistinctPathsIn(Inserted)) =>
    \A s \in Orders(Inserted) :
      /\ AddManyFiles(<<>>, s).err = "none"
      /\ Written(AddManyFiles(<<>>, s).files) = WrittenOf(Inserted)

\* Three files were inserted, "/bn" before "/b".
C13_Witness ==
  /\ last.op = "addFile"
  /\ last.err = "none"
  /\ Len(files) = 3
  /\ files[3] = last.arg
  /\ files[1].path = PBarn
  /\ files[2].path = PBar

\* One entry of another change-set inserted with the single-insertion rules.
InsertOne(d, kind, x) ==
  IF kind = "file"
  THEN [dtp |-> Dtp(AddFile(d.files, x).files, d.remove, d.symlinks),
        err |-> AddFile(d.files, x).err]
  ELSE IF kind = "remove"
  THEN [dtp |-> Dtp(d.files, RemovePath(d.remove, x).remove, d.symlinks),
        err |-> RemovePath(d.remove, x).err]
  ELSE [dtp |-> Dtp(d.files, d.remove, AddSymlink(d.symlinks, x).symlinks),
        err |-> AddSymlink(d.symlinks, x).err]

\* The entries of a change-set: its writes, then its removals, then its symlinks.
EntriesOf(o) ==
  [i \in 1..Len(o.files) |-> [kind |-> "file", x |-> o.files[i]]]
    \o [i \in 1..Len(o.remove) |-> [kind |-> "remove", x |-> o.remove[i]]]
    \o [i \in 1..Len(o.symlinks) |-> [kind |-> "symlink", x |-> o.symlinks[i]]]

\* The entries inserted one at a time, up to the first one that throws.
RECURSIVE InsertFrom(_, _, _)
InsertFrom(d, es, i) ==
  IF i > Len(es) THEN [dtp |-> d, err |-> "none"]
  ELSE With(InsertOne(d, es[i].kind, es[i].x),
            LAMBDA r : IF r.err # "none" THEN r ELSE InsertFrom(r.dtp, es, i + 1))

\* C14: a merge leaves the change-set, and ends, as the insertion of the
\* other's writes, then removals, then symlinks one at a time does; a merge of
\* an absent change-set changes nothing.
C14_MergeAsInsertions ==
  [][last'.op = "merge" =>
       IF last'.arg = NoDtp
       THEN <<files', remove', symlinks'>> = <<files, remove, symlinks>>
            /\ last'.err = "none"
       ELSE /\ Dtp(files', remove', symlinks') = InsertFrom(This, EntriesOf(last'.arg), 1).dtp
            /\ last'.err = InsertFrom(This, EntriesOf(last'.arg), 1).err]_vars

\* A change-set that held a removal took over a write and a symlink.
C14_Witness ==
  /\ last.op = "merge"
  /\ last.err = "none"
  /\ last.arg # NoDtp
  /\ Len(last.arg.remove) = 0
  /\ Len(last.arg.files) >= 1
  /\ Len(last.arg.symlinks) >= 1
  /\ Len(remove) >= 1
  /\ Len(files) >= 1


HasFailed(st) == \E i \in 1..Len(st) : st[i] = "failed"

HasRunning(st) == \E i \in 1..Len(st) : st[i] = "running"

AllIn(st, status) == \A i \in 1..Len(st) : st[i] = status

C17_NoTaskOutlivesCommit ==
  pc \in {"done", "failed"}
    => ~(HasRunning(rmSt) \/ HasRunning(wrSt) \/ HasRunning(slSt))

\* C17 as amended: a commit that ended as done has every task done; in one
\* that failed the only tasks still running are siblings of a failed task, in
\* the batch that was rejected.
C17_OnlySiblingsOutlive ==
  /\ pc = "done"
       => (AllIn(rmSt, "done") /\ AllIn(wrSt, "done") /\ AllIn(slSt, "done"))
  /\ pc = "failed" =>
       /\ \A i \in 1..Len(rmSt) :
            rmSt[i] = "running"
              => (i \in RestBatch /\ \E j \in RestBatch : rmSt[j] = "failed")
       /\ HasRunning(wrSt) => HasFailed(wrSt)
       /\ HasRunning(slSt) => HasFailed(slSt)

\* A commit has failed on one write while another write is still running.
C17_Witness ==
  /\ pc = "failed"
  /\ HasFailed(wrSt)
  /\ HasRunning(wrSt)

Concurrent(st, i, j) == i # j /\ st[i] = "running" /\ st[j] = "running"

Disjoint(p, q) == p # q /\ ~InAncestorRelation(p, q)

WritesDisjoint ==
  \A i, j \in 1..Len(wrSt) :
    Concurrent(wrSt, i, j) => Disjoint(files[i].path, files[j].path)

\* C18 as stated: the tasks that run concurrently in one phase are
\* path-disjoint: two removal tasks and two write tasks have distinct paths,
\* neither below the other, and two symlink tasks have distinct destinations.
C18_PathDisjoint ==
  /\ \A i, j \in RestBatch \cap (1..Len(rmSt)) :
       Concurrent(rmSt, i, j) => Disjoint(remove[i].path, remove[j].path)
  /\ WritesDisjoint
  /\ \A i, j \in 1..Len(slSt) :
       Concurrent(slSt, i, j) => symlinks[i].dest # symlinks[j].dest

\* C18 as amended: the write tasks that run concurrently are path-disjoint,
\* and no RemovePath object is pending twice.
C18_WritesPathDisjoint ==
  /\ WritesDisjoint
  /\ \A i, j \in 1..Len(remove) : remove[i].oid = remove[j].oid => i = j

\* Two writes run concurrently behind a finished removal.
C18_Witness ==
  /\ \E i, j \in 1..Len(wrSt) : Concurrent(wrSt, i, j)
  /\ Len(rmSt) >= 1

\* C19 as stated: after an addBasePath that succeeded, the same call again
\* fails with the not-relative error.
C19_SecondCallFails ==
  (last.op = "addBasePath" /\ last.err = "none")
    => AddBasePath(This, last.arg.base).err = "NotRelative"

\* C19 as amended: the same for an absolute base and a change-set that is not
\* empty; the second call changes nothing.
C19_SecondCallFailsOnAbsolute ==
  /\ [](( /\ last.op = "addBasePath"
          /\ last.err = "none"
          /\ IsAbsolute(last.arg.base)
          /\ Size(This) > 0)
         => /\ AddBasePath(This, last.arg.base).err = "NotRelative"
            /\ AddBasePath(This, last.arg.base).dtp = This)
  /\ [][( /\ last.op = "addBasePath"
          /\ last.err = "none"
          /\ IsAbsolute(last.arg.base)
          /\ Size(This) > 0
          /\ last'.op = "addBasePath")
         => (last'.err = "NotRelative" /\ UNCHANGED <<files, remove, symlinks>>)]_vars

\* The second of two calls with "/w" was refused: every pending path is below "/w".
C19_Witness ==
  /\ last.op = "addBasePath"
  /\ last.err = "NotRelative"
  /\ last.arg.base = PBase
  /\ Len(files) >= 1
  /\ Len(symlinks) >= 1
  /\ \A p \in PathsOf(This) : StartsWith(p, Append(PBase, PathSep))

\* C26: a removePath of a request that is already pending ends without an
\* error and leaves the pending removals as they were; a merge adds, of the
\* other's requests, those that are not pending, once each; and no request
\* is ever pending twice.
C26_RemovePathIdempotent ==
  /\ [](\A i, j \in 1..Len(remove) : remove[i].oid = remove[j].oid => i = j)
  /\ [][(/\ last'.op = "removePath"
          /\ last'.arg # NoFile
          /\ Includes(remove, last'.arg))
         => (remove' = remove /\ last'.err = "none")]_vars
  /\ [][(/\ last'.op = "merge"
          /\ last'.arg # NoDtp
          /\ last'.err \notin {"DirectoryCollision", "EmptyFile", "NoPathProperty"})
         => /\ \A i \in 1..Len(remove) : remove'[i] = remove[i]
            /\ Len(remove') = Len(remove)
                 + Cardinality({o.oid : o \in Range(last'.arg.remove)}
                                 \ {o.oid : o \in Range(remove)})]_vars

\* A removePath was called with a request that was pending before another
\* one: the request is where it was, not at the end.
C26_Witness ==
  /\ last.op = "removePath"
  /\ last.err = "none"
  /\ last.arg # NoFile
  /\ Len(remove) >= 2
  /\ remove[1].oid = last.arg.oid
  /\ \A i \in 2..Len(remove) : remove[i].oid # last.arg.oid

C29_FailedRebaseChangesNothing ==
  [][(last'.op = "addBasePath" /\ last'.err # "none")
       => UNCHANGED <<files, remove, symlinks>>]_vars

\* The pending entries in the order addBasePath visits them: writes,
\* symlinks, removals.
RebaseOrder(d) ==
  [i \in 1..Len(d.files) |-> [kind |-> "file", x |-> d.files[i]]]
    \o [i \in 1..Len(d.symlinks) |-> [kind |-> "symlink", x |-> d.symlinks[i]]]
    \o [i \in 1..Len(d.remove) |-> [kind |-> "remove", x |-> d.remove[i]]]

HasAbsolutePath(e) ==
  IF e.kind = "symlink" THEN IsAbsolute(e.x.src) \/ IsAbsolute(e.x.dest)
  ELSE IsAbsolute(e.x.path)

\* The entry with the base put before its paths.
Rebased(e, base) ==
  IF e.kind = "symlink"
  THEN [e EXCEPT !.x = [@ EXCEPT !.src = base \o <<PathSep>> \o @,
                                 !.dest = base \o <<PathSep>> \o @]]
  ELSE [e EXCEPT !.x = [@ EXCEPT !.path = base \o <<PathSep>> \o @]]

\* C29, amended: an addBasePath throws exactly when a pending entry has an
\* absolute path; it has then rewritten the entries that come before the
\* first such entry (writes, then symlinks, then removals) and no other.
C29_FailedRebaseIsPrefix ==
  [][last'.op = "addBasePath" =>
       LET before == RebaseOrder(This)
           after == RebaseOrder(Dtp(files', remove', symlinks'))
           abs == {i \in 1..Len(before) : HasAbsolutePath(before[i])}
       IN /\ (last'.err # "none") = (abs # {})
          /\ Len(after) = Len(before)
          /\ \A i \in 1..Len(before) :
               after[i] = IF \E k \in abs : k <= i THEN before[i]
                          ELSE Rebased(before[i], last'.arg.base)]_vars

\* An addBasePath with "/w" was refused at the second pending write, after
\* it had rewritten the first.
C29_Witness ==
  /\ last.op = "addBasePath"
  /\ last.err = "NotRelative"
  /\ last.arg.base = PBase
  /\ Len(files) >= 2
  /\ files[1].path = PBase \o <<PathSep>> \o PRelFoo
  /\ ~StartsWith(files[2].path, Append(PBase, PathSep))

\* The writes of a list inserted one at a time, up to the i-th.
RECURSIVE InsertedUpTo(_, _, _)
InsertedUpTo(fs, list, i) ==
  IF i = 0 THEN fs ELSE AddFile(InsertedUpTo(fs, list, i - 1), list[i]).files

\* C30: a merge that ends with a directory collision has left the pending
\* removals and symlinks as they were, and the pending writes as the
\* insertion of the other's writes before the colliding one leaves them;
\* each of these insertions succeeded.
C30_FailedMergeIsPrefix ==
  [][(last'.op = "merge" /\ last'.err = "DirectoryCollision") =>
       /\ remove' = remove
       /\ symlinks' = symlinks
       /\ \E k \in 1..Len(last'.arg.files) :
            /\ \A i \in 1..(k - 1) :
                 AddFile(InsertedUpTo(files, last'.arg.files, i - 1),
                         last'.arg.files[i]).err = "none"
            /\ DirectoryCollision(InsertedUpTo(files, last'.arg.files, k - 1),
                                  last'.arg.files[k])
            /\ files' = InsertedUpTo(files, last'.arg.files, k - 1)]_vars

\* A merge was refused at the second write of the other change-set: the
\* first is pending, the second and the other's removal are not.
C30_Witness ==
  /\ last.op = "merge"
  /\ last.err = "DirectoryCollision"
  /\ Len(last.arg.files) = 2
  /\ Len(last.arg.remove) = 1
  /\ \E i \in 1..Len(files) : files[i] = last.arg.files[1]
  /\ ~HasPending(files, last.arg.files[2].path)
  /\ ~Includes(remove, last.arg.remove[1])

(***************************************************************************)
(* Properties of addAction.                                                *)
(***************************************************************************)
Finished == apc \in {"done", "failed"}

\* The add got as far as building its candidates: its paths were accepted.
PathsAccepted == aerr.kind \notin {"PathNotExists", "NoFiles"}

\* The component paths of the command that become candidates.
CandidatePaths ==
  LET stats == ComponentPathsStats(cmd) IN
    IF stats.err # NoErr THEN <<>>
    ELSE IF Len(stats.paths) > 1 /\ cmd.id = NoId THEN WithoutTests(cmd, stats.paths)
    ELSE stats.paths

\* The ids the candidates get before the index is asked: the id given, else
\* the default id of each path.
CandidateIds ==
  IF cmd.id # NoId THEN {cmd.id}
  ELSE {IdToString(IF IsDir(CandidatePaths[i]) THEN DefaultDirId(cmd, CandidatePaths[i])
                   ELSE DefaultFileId(cmd, CandidatePaths[i])) : i \in 1..Len(CandidatePaths)}

MatchesNested(id) ==
  \E k \in Keys(bitMap) : SameBoxAndName(k, id) /\ bitMap[k].origin = "NESTED"

\* C5: an add one of whose candidate ids (the id given, or the default id of
\* a file or of a directory) matches a Nested entry by namespace and name
\* ends with the ownership error, without any addComponent and without a
\* write, the index in memory and on disk being what it was.
C5_NestedRejected ==
  (Finished /\ PathsAccepted /\ \E id \in CandidateIds : MatchesNested(id))
    => /\ aerr.kind = "NestedOwnership"
       /\ nAddComponent = 0
       /\ nWrite = 0
       /\ bitMap = stored

Tracked(bm) ==
  {<<k, i>> \in Keys(bm) \X (1..4) : i <= Len(bm[k].files)}

UniqueOwner(bm) ==
  \A x, y \in Tracked(bm) :
    bm[x[1]].files[x[2]].relativePath = bm[y[1]].files[y[2]].relativePath => x = y

\* C6: in the index in memory and in the index on disk, at every point of
\* every sequence of adds, a tracked relativePath is in one entry only, and
\* once in it.
C6_UniqueOwner == UniqueOwner(bitMap) /\ UniqueOwner(stored)

\* An add has returned whose file was tracked by another entry than the one
\* its id named.
C6_Witness ==
  /\ apc = "done"
  /\ cmd.id = IdIxIm
  /\ cmd.paths = <<FileNm>>
  /\ IdImported \in Keys(stored)
  /\ GetComponentIdByPath(stored, FileNm) = IdVersioned

\* C7: the index is written only when every candidate has been reconciled;
\* an add that has succeeded has written it once, an add that has failed or
\* is still reconciling has not written it, and the index on disk changes in
\* no other step than that write.
C7_PersistOnce ==
  /\ [](/\ nWrite > 0 => apc = "done" /\ ci > Len(cands)
        /\ apc = "done" => nWrite = 1
        /\ apc \in {"failed", "reconcile"} => nWrite = 0)
  /\ [][stored' # stored => apc = "reconcile" /\ ci > Len(cands) /\ apc' = "done"]_vars

\* An add of two candidates has succeeded and has written the index.
C7_Witness ==
  /\ apc = "done"
  /\ Len(cands) = 2
  /\ Len(added) = 2
  /\ nWrite = 1

\* C8: an add that succeeds has not reconciled two of its candidates under
\* the same final id.
C8_DuplicateFinalIdsRejected ==
  apc = "done" =>
    \A i, j \in 1..Len(added) :
      i # j => \A a \in 1..Len(added[i]), b \in 1..Len(added[j]) :
                 added[i][a].id # added[j][b].id

\* The files a component path yields before the excludes: what is under the
\* directory, or the file, with the test files and the main file.
FilesOfPath(c, p) ==
  AddMainFileToFiles(
    MergeTestFilesWithFiles(
      Records(IF IsDir(p) THEN IgnoreFilter(GlobDir(p)) ELSE <<p>>, FALSE), c.tests),
    c.main)

\* The paths the exclude patterns of c yield for the files of the paths ps.
ExcludedOf(c, ps) ==
  IF c.exclude = <<>> THEN {}
  ELSE {q \in TreeFiles \ IgnoredFiles :
          \E i \in 1..Len(ps) : \E j \in 1..Len(FilesOfPath(c, ps[i]).files) :
            \E k \in 1..Len(c.exclude) :
              Format(c.exclude[k], FilesOfPath(c, ps[i]).files[j].relativePath) = q}

\* The entries with a rootDir that track a file given to the command and
\* left by its excludes.
ImportedOwners ==
  {k \in Keys(bitMap) :
     /\ bitMap[k].rootDir # NoPath
     /\ \E i \in 1..Len(CandidatePaths) :
          /\ ~IsDir(CandidatePaths[i])
          /\ HasPath(bitMap[k], CandidatePaths[i])
          /\ CandidatePaths[i] \notin ExcludedOf(cmd, CandidatePaths)}

\* What an add of a file tracked by the imported entry k has to end with.
ImportedIdChecked(k) ==
  LET tracked == ToStringWithoutVersion(Parse(k))
      short == ToStringWithoutScopeAndVersion(Parse(k))
  IN /\ cmd.id = NoId => aerr.kind = "MissingId" /\ nWrite = 0
     /\ (cmd.id # NoId /\ cmd.id \notin {tracked, short})
          => aerr = Err("IncorrectId", <<tracked, cmd.id>>) /\ nWrite = 0

Results == {added[i][j] : <<i, j>> \in {x \in (1..3) \X (1..3) :
                                          x[1] <= Len(added) /\ x[2] <= Len(added[x[1]])}}

\* C10: when the add returns, each id it returns is a key of the index; it
\* is a key the index already had whenever the index had an entry with that
\* id or with its namespace and name; and no file returned under it is or
\* was tracked by another entry, so that a file keeps the id it was first
\* returned with and never gets a second entry.
C10_CanonicalId ==
  [][apc' = "done" =>
       \A r \in Results :
         /\ r.id \in Keys(stored')
         /\ GetExistingComponentId(stored, r.id) # NoId => r.id \in Keys(stored)
         /\ \A i \in 1..Len(r.files) :
              /\ GetComponentIdByPath(stored', r.files[i].relativePath) \in {NoId, r.id}
              /\ GetComponentIdByPath(stored, r.files[i].relativePath) \in {NoId, r.id}]_vars

\* A directory added under its default id has been returned under the id of
\* the entry with that namespace and name.
C10_Witness ==
  /\ apc = "done"
  /\ cmd.paths = <<DirNm>>
  /\ cmd.id = NoId
  /\ cands[1].componentId = GetValidBitId(<<"bx">>, <<"nm">>)
  /\ \E r \in Results : r.id = IdVersioned

\* The id a candidate is added under when none of its files is tracked.
OwnId(cand, bm) == IdToString(ResolvedId(bm, IdToString(cand.componentId)))

\* The files of the candidates of the add that ends in this step which the
\* index tracked, before the add, under another id than their candidate's and
\* in an entry without a rootDir.
ForeignFiles ==
  {x \in (1..3) \X (1..4) :
     /\ x[1] <= Len(cands')
     /\ x[2] <= Len(cands'[x[1]].files)
     /\ ~IsAutoGeneratedFile(cands'[x[1]].files[x[2]].relativePath)
     /\ LET owner == GetComponentIdByPath(stored, cands'[x[1]].files[x[2]].relativePath)
        IN /\ owner # NoId
           /\ owner # OwnId(cands'[x[1]], stored)
           /\ stored[owner].rootDir = NoPath}

InWarnings(w, p) ==
  \E i \in 1..Len(w) : \E j \in 1..Len(w[i].paths) : w[i].paths[j] = p

\* C20: an add without override that succeeds with a file tracked by another
\* component than its candidate's leaves the file out of the candidate's
\* entry, leaves it with the entry that tracked it, and returns its
\* relativePath in the warnings.
C20_SoftConflictWarned ==
  [][(apc = "reconcile" /\ apc' = "done" /\ ~cmd.override)
       => \A x \in ForeignFiles :
            LET p == cands[x[1]].files[x[2]].relativePath
                own == OwnId(cands[x[1]], stored)
            IN /\ own \in Keys(stored') => ~HasPath(stored'[own], p)
               /\ GetComponentIdByPath(stored', p) = GetComponentIdByPath(stored, p)
               /\ InWarnings(warnings', p)]_vars

\* The input errors of a command, read off the working tree.
MissingTestPath(c) ==
  \E i \in 1..Len(c.tests) : ~IsDsl(c.tests[i]) /\ ~ExistsSync(c.tests[i].path)

\* The command falls back on its test files: it has test patterns and an id.
TestFallback(c) == c.tests # <<>> /\ c.id # NoId

SomeSuppliedPathMissing(c) == \E i \in 1..Len(c.paths) : ~ExistsSync(c.paths[i])

NoSuppliedPathExists(c) ==
  ~TestFallback(c) /\ \A i \in 1..Len(c.paths) : ~ExistsSync(c.paths[i])

AllFilteredOut(c) ==
  /\ \E i \in 1..Len(c.paths) : ExistsSync(c.paths[i])
  /\ \A i \in 1..Len(c.paths) : ExistsSync(c.paths[i]) => c.paths[i] \in IgnoredFiles

EmptyDirAmong(c) ==
  \E i \in 1..Len(c.paths) :
    /\ IsDir(c.paths[i])
    /\ \A f \in TreeFiles : IsPrefix(c.paths[i], f) => f \in IgnoredFiles

\* The invocation was aborted with nothing added: no addComponent, no write,
\* nothing returned, the index in memory being the one on disk.
Aborted ==
  /\ apc = "failed"
  /\ nAddComponent = 0
  /\ nWrite = 0
  /\ added = <<>>
  /\ bitMap = stored

InputErrorKinds == {"PathNotExists", "NoFiles", "EmptyDirectory"}

AllExcluded ==
  /\ cmd.exclude # <<>>
  /\ cands # <<>>
  /\ \A i \in 1..Len(cands) : cands[i].files = <<>>

\* C22: an add whose exclude patterns remove every file of every candidate
\* does not complete; it fails with the no-files error.
C22_AllExcludedAborts ==
  /\ apc = "done" => ~AllExcluded
  /\ (Finished /\ AllExcluded) => aerr.kind = "NoFiles"

\* The records a component path is left with by the excludes of an add of ps.
KeptOfPath(c, ps, p) ==
  LET fp == FilesOfPath(c, p) IN
    IF fp.mainFile \in ExcludedOf(c, ps) THEN {}
    ELSE {fp.files[j] : j \in {j \in 1..Len(fp.files) :
                                 fp.files[j].relativePath \notin ExcludedOf(c, ps)}}

RecordPaths(recs) == {r.relativePath : r \in recs}

OneRecordPerPath(fs) ==
  \A i, j \in 1..Len(fs) : fs[i].relativePath = fs[j].relativePath => i = j

\* The add is one of several components: several paths and no id.
ManyMode == aerr = NoErr /\ cmd.id = NoId /\ Len(ComponentPathsStats(cmd).paths) > 1

\* The add is one component of several paths, with an id.
CollapsedMode == aerr = NoErr /\ cmd.id # NoId /\ Len(ComponentPathsStats(cmd).paths) > 1

\* C23: once the candidates are built, an add of several paths without an id
\* has one candidate per path (the test files of other paths aside), holding
\* the files of that path under an id of that path, no two ids the same; an
\* add of several paths with an id has one candidate, under that id (as the
\* index has it), with one record per relativePath, the relativePaths being
\* those of all the paths and a record being a test file when one of the
\* merged records is.
C23_CandidatesPerPathOrCollapsed ==
  apc \in {"reconcile", "done"} =>
    /\ ManyMode =>
         /\ Len(cands) = Len(CandidatePaths)
         /\ \A i \in 1..Len(cands) :
              /\ SameBoxAndName(IdToString(cands[i].componentId),
                                IdToString(IF IsDir(CandidatePaths[i])
                                           THEN DefaultDirId(cmd, CandidatePaths[i])
                                           ELSE DefaultFileId(cmd, CandidatePaths[i])))
              /\ Range(cands[i].files)
                   = KeptOfPath(cmd, <<CandidatePaths[i]>>, CandidatePaths[i])
         /\ \A i, j \in 1..Len(cands) :
              i # j => IdToString(cands[i].componentId) # IdToString(cands[j].componentId)
    /\ CollapsedMode =>
         LET ps == ComponentPathsStats(cmd).paths
             merged == UNION {KeptOfPath(cmd, ps, ps[i]) : i \in 1..Len(ps)}
         IN /\ Len(cands) = 1
            /\ SameBoxAndName(IdToString(cands[1].componentId), cmd.id)
            /\ OneRecordPerPath(cands[1].files)
            /\ RecordPaths(Range(cands[1].files)) = RecordPaths(merged)
            /\ \A i \in 1..Len(cands[1].files) :
                 cands[1].files[i].test
                   = (\E r \in merged :
                        r.relativePath = cands[1].files[i].relativePath /\ r.test)

\* Two paths were added under one id, the second path yielding the first as
\* its test file: the one candidate has the file once, as a test file.
C23_Witness ==
  /\ apc = "done"
  /\ CollapsedMode
  /\ cmd.paths = <<FileNmSpec, FileNm>>
  /\ cmd.tests # <<>>
  /\ Len(cands) = 1
  /\ \E i \in 1..Len(cands[1].files) :
       cands[1].files[i].relativePath = FileNmSpec /\ cands[1].files[i].test

\* Two paths were added without an id and each is a candidate.
C23_WitnessMany ==
  /\ apc = "done"
  /\ ManyMode
  /\ Len(cands) = 2

\* The component paths a candidate was built from.
PathsOfCandidate(i) ==
  IF ManyMode THEN <<CandidatePaths[i]>> ELSE ComponentPathsStats(cmd).paths

\* C24: once the candidates are built, no candidate holds a file that the
\* exclude patterns yield for its files, and a candidate that holds files
\* has no such main file (a path whose main file is excluded brings no
\* file); a candidate without files is not added; and an add never gives an
\* entry a main file that its exclude patterns match.
C24_NoExcludedFileOrMain ==
  /\ [](apc \in {"reconcile", "done"} =>
          /\ \A i \in 1..Len(cands) :
               LET ex == ExcludedOf(cmd, PathsOfCandidate(i)) IN
                 /\ \A j \in 1..Len(cands[i].files) : cands[i].files[j].relativePath \notin ex
                 /\ cands[i].files # <<>> => cands[i].mainFile \notin ex
                 /\ RecordPaths(Range(cands[i].files))
                      \subseteq UNION {RecordPaths(KeptOfPath(cmd, PathsOfCandidate(i),
                                                              PathsOfCandidate(i)[k]))
                                         : k \in 1..Len(PathsOfCandidate(i))}
          /\ apc = "done" =>
               Len(added) = Cardinality({i \in 1..Len(cands) : cands[i].files # <<>>}))
  /\ [][(apc = "reconcile" /\ apc' = "done") =>
          \A k \in Keys(stored') :
            (\E i \in 1..Len(cands) : stored'[k].mainFile \in ExcludedOf(cmd, PathsOfCandidate(i)))
              => k \in Keys(stored) /\ stored[k].mainFile = stored'[k].mainFile]_vars

\* A directory was added whose main file, found by pattern, is excluded:
\* the add is done and nothing was added.
C24_Witness ==
  /\ apc = "done"
  /\ cmd.exclude # <<>>
  /\ cmd.main # NoPattern
  /\ Len(cands) = 1
  /\ FilesOfPath(cmd, cmd.paths[1]).mainFile \in ExcludedOf(cmd, cmd.paths)
  /\ cands[1].files = <<>>
  /\ added = <<>>
  /\ nAddComponent = 0

\* The existing files the test patterns of c yield for the files of ps.
TestsFor(c, ps) ==
  {q \in TreeFiles \ IgnoredFiles :
     \E i \in 1..Len(ps) : \E k \in 1..Len(c.tests) : Format(c.tests[k], ps[i]) = q}

\* The files a component path holds by itself: those under the directory, or the file.
RawFiles(p) == IF IsDir(p) THEN IgnoreFilter(GlobDir(p)) ELSE <<p>>

\* C25: once the candidates are built, a candidate has one record per
\* relativePath; a record is a test file exactly when the test patterns
\* yield its path for the files of one of the candidate's paths that brings
\* it, also when the path is a regular file of the candidate; and in an add
\* of several components a supplied path that the test patterns yield for the
\* supplied paths is no candidate: there is one candidate for each other
\* path, and such a path is in a candidate as a test file only.
C25_TestFilesMerged ==
  apc \in {"reconcile", "done"} =>
    /\ \A i \in 1..Len(cands) :
         /\ OneRecordPerPath(cands[i].files)
         /\ \A j \in 1..Len(cands[i].files) :
              LET rec == cands[i].files[j]
                  ps == PathsOfCandidate(i)
              IN rec.test =
                   (\E k \in 1..Len(ps) :
                      /\ rec.relativePath \in TestsFor(cmd, RawFiles(ps[k]))
                      /\ rec.relativePath \in RecordPaths(KeptOfPath(cmd, ps, ps[k])))
    /\ ManyMode =>
         LET supplied == ComponentPathsStats(cmd).paths
             testToRemove == TestsFor(cmd, supplied)
         IN /\ Len(cands) = Cardinality(Range(supplied) \ testToRemove)
            /\ \A i \in 1..Len(cands) : \A j \in 1..Len(cands[i].files) :
                 cands[i].files[j].relativePath \in testToRemove => cands[i].files[j].test

\* A directory and a file under it were added without an id, the file being
\* a test file by pattern: the directory is the only candidate and holds the
\* file once, as a test file.
C25_Witness ==
  /\ apc = "done"
  /\ ManyMode
  /\ cmd.paths = <<DirNm, FileIndex>>
  /\ cmd.tests = <<Lit(FileIndex)>>
  /\ Len(cands) = 1
  /\ FileIndex \in Range(RawFiles(DirNm))
  /\ \E j \in 1..Len(cands[1].files) :
       cands[1].files[j].relativePath = FileIndex /\ cands[1].files[j].test

\* The path is in the warnings under the id.
WarnedUnder(w, k, p) ==
  \E i \in 1..Len(w) : w[i].id = k /\ \E j \in 1..Len(w[i].paths) : w[i].paths[j] = p

\* The add that ends in this step returns, under the id of the entry that
\* tracked it, every file it found tracked by another component than its
\* candidate's.
SkippedFilesWarned ==
  (apc = "reconcile" /\ apc' = "done" /\ ~cmd.override)
    => \A x \in ForeignFiles :
         LET p == cands[x[1]].files[x[2]].relativePath
         IN WarnedUnder(warnings', GetComponentIdByPath(stored, p), p)

\* A step of the reconciliation keeps every warning it found recorded, in
\* its place, and does not end with the TypeError of a push on undefined.
WarningsKept ==
  apc = "reconcile"
    => /\ aerr' # Err("TypeError", <<>>)
       /\ Len(warnings') >= Len(warnings)
       /\ \A i \in 1..Len(warnings) :
            /\ warnings'[i].id = warnings[i].id
            /\ Len(warnings'[i].paths) >= Len(warnings[i].paths)
            /\ SubSeq(warnings'[i].paths, 1, Len(warnings[i].paths)) = warnings[i].paths

\* C27: within one add the warnings only accumulate: a file that is skipped
\* because another component tracks it is returned in the warnings under the
\* id of that component, and a later warning neither removes nor replaces an
\* earlier one nor makes the add fail.
C27_WarningsAccumulate ==
  [][SkippedFilesWarned /\ WarningsKept]_vars


(***************************************************************************)
(* installAction.  A task is one call of                                   *)
(* _installInOneDirectoryWithPeerOption: "idle" until it is called, then   *)
(* "install" while the package manager runs, "list" while npm list runs,   *)
(* "peers" while the peer dependencies are installed, and "done" or        *)
(* "failed" at its end.  ipc is the await installAction stands at.         *)
(***************************************************************************)
RootDir == "rt"

Dirs == {"d1", "d2"}

DirLists == UNION {[1..n -> Dirs] : n \in 0..MaxDirs}

InstallArgs ==
  [packageManager : {"npm", "yarn"},
   useWorkspaces : BOOLEAN,
   installRootPackageJson : BOOLEAN,
   installPeerDependencies : BOOLEAN,
   dirs : DirLists]

Task(kind, dir) == [kind |-> kind, dir |-> dir, pc |-> "idle"]

\* _installInOneDirectory up to its return: ensureDirSync throws, or the
\* package manager is spawned.
InstallInOneDirectory(t, phase, dirOk) ==
  [t EXCEPT !.pc = IF dirOk THEN phase ELSE "failed"]

\* The first install of a task has ended (lines 684-706).
AfterInstall(t, ok, installPeerDependencies) ==
  IF ~ok THEN [t EXCEPT !.pc = "failed"]
  ELSE IF installPeerDependencies THEN [t EXCEPT !.pc = "list"]
  ELSE [t EXCEPT !.pc = "done"]

\* What npm list ends with: its output, an error with a json output, an
\* error without one, or an output that does not parse.
ListOutcomes == {"json", "jsonWithErrors", "error", "unparsable"}

\* _getPeerDeps has ended (lines 613-628, 630-668), and the peers are
\* installed (lines 695-703).
AfterList(t, outcome, dirOk) ==
  IF outcome \in {"json", "jsonWithErrors"}
  THEN InstallInOneDirectory(t, "peers", dirOk)
  ELSE [t EXCEPT !.pc = "failed"]

AfterPeers(t, ok) == [t EXCEPT !.pc = IF ok THEN "done" ELSE "failed"]

WithWorkspaces(o) == o.useWorkspaces /\ o.packageManager = "yarn"

\* The calls installAction makes, in the order of its text.
Plan(o) ==
  (IF WithWorkspaces(o) THEN <<Task("workspaces", RootDir)>> ELSE <<>>)
    \o (IF o.installRootPackageJson THEN <<Task("root", RootDir)>> ELSE <<>>)
    \o [i \in 1..Len(o.dirs) |-> Task("dir", o.dirs[i])]

TaskOf(ts, kind) == CHOOSE i \in 1..Len(ts) : ts[i].kind = kind

\* The task of the kind is called.
Enter(ts, kind, dirOk) ==
  [ts EXCEPT ![TaskOf(ts, kind)] = InstallInOneDirectory(@, "install", dirOk)]

\* Mutant of PMapSeries: the mapper is called for every directory at once,
\* as under Promise.all.
PMapAll(ts, i) == TRUE

\* pMapSeries calls the mapper for a directory once the promises of the
\* directories before it are fulfilled.
PMapSeries(ts, i) ==
  \A j \in 1..(i - 1) : ts[j].kind = "dir" => ts[j].pc = "done"

\* installAction is called and runs to its first await.
InstallAction ==
  /\ ipc = "idle"
  /\ \E o \in InstallArgs : \E dirOk \in BOOLEAN :
       /\ iopt' = o
       /\ IF WithWorkspaces(o)
          THEN ipc' = "workspaces" /\ tasks' = Enter(Plan(o), "workspaces", dirOk)
          ELSE IF o.installRootPackageJson
          THEN ipc' = "root" /\ tasks' = Enter(Plan(o), "root", dirOk)
          ELSE ipc' = "dirs" /\ tasks' = Plan(o)
  /\ UNCHANGED <<varsD, varsA>>

\* The package manager of a task's install exits.
InstallExit ==
  /\ \E i \in 1..Len(tasks) : \E ok \in BOOLEAN :
       /\ tasks[i].pc = "install"
       /\ tasks' = [tasks EXCEPT ![i] = AfterInstall(@, ok, iopt.installPeerDependencies)]
  /\ UNCHANGED <<ipc, iopt>>
  /\ UNCHANGED <<varsD, varsA>>

\* npm list exits.
ListExit ==
  /\ \E i \in 1..Len(tasks) : \E outcome \in ListOutcomes : \E dirOk \in BOOLEAN :
       /\ tasks[i].pc = "list"
       /\ tasks' = [tasks EXCEPT ![i] = AfterList(@, outcome, dirOk)]
  /\ UNCHANGED <<ipc, iopt>>
  /\ UNCHANGED <<varsD, varsA>>

\* The package manager of a task's peer install exits.
PeersExit ==
  /\ \E i \in 1..Len(tasks) : \E ok \in BOOLEAN :
       /\ tasks[i].pc = "peers"
       /\ tasks' = [tasks EXCEPT ![i] = AfterPeers(@, ok)]
  /\ UNCHANGED <<ipc, iopt>>
  /\ UNCHANGED <<varsD, varsA>>

\* installAction resumes behind the await of the workspaces install
\* (lines 724-734).
AfterWorkspaces ==
  /\ ipc = "workspaces"
  /\ tasks[TaskOf(tasks, "workspaces")].pc \in {"done", "failed"}
  /\ \E dirOk \in BOOLEAN :
       IF tasks[TaskOf(tasks, "workspaces")].pc = "failed"
       THEN ipc' = "failed" /\ UNCHANGED tasks
       ELSE IF iopt.installRootPackageJson
       THEN ipc' = "root" /\ tasks' = Enter(tasks, "root", dirOk)
       ELSE ipc' = "dirs" /\ UNCHANGED tasks
  /\ UNCHANGED iopt
  /\ UNCHANGED <<varsD, varsA>>

\* installAction resumes behind the await of the root install (lines 737-752).
AfterRoot ==
  /\ ipc = "root"
  /\ tasks[TaskOf(tasks, "root")].pc \in {"done", "failed"}
  /\ ipc' = IF tasks[TaskOf(tasks, "root")].pc = "failed" THEN "failed" ELSE "dirs"
  /\ UNCHANGED <<iopt, tasks>>
  /\ UNCHANGED <<varsD, varsA>>

\* pMapSeries calls installInDir for a directory (lines 754-767).
InstallInDir ==
  /\ ipc = "dirs"
  /\ \E i \in 1..Len(tasks) : \E dirOk \in BOOLEAN :
       /\ tasks[i].kind = "dir"
       /\ tasks[i].pc = "idle"
       /\ PMapSeries(tasks, i)
       /\ tasks' = [tasks EXCEPT ![i] = InstallInOneDirectory(@, "install", dirOk)]
  /\ UNCHANGED <<ipc, iopt>>
  /\ UNCHANGED <<varsD, varsA>>

\* The promise of pMapSeries settles and installAction ends (lines 767-768).
AfterDirs ==
  /\ ipc = "dirs"
  /\ \/ /\ \E i \in 1..Len(tasks) : tasks[i].kind = "dir" /\ tasks[i].pc = "failed"
        /\ ipc' = "failed"
     \/ /\ \A i \in 1..Len(tasks) : tasks[i].kind = "dir" => tasks[i].pc = "done"
        /\ ipc' = "done"
  /\ UNCHANGED <<iopt, tasks>>
  /\ UNCHANGED <<varsD, varsA>>

\* The caller has the result or the error; the next call starts anew.
InstallReturn ==
  /\ ipc \in {"done", "failed"}
  /\ ipc' = "idle"
  /\ iopt' = NoOptions
  /\ tasks' = <<>>
  /\ UNCHANGED <<varsD, varsA>>

NextI ==
  \/ InstallAction
  \/ InstallExit
  \/ ListExit
  \/ PeersExit
  \/ AfterWorkspaces
  \/ AfterRoot
  \/ InstallInDir
  \/ AfterDirs
  \/ InstallReturn

InitInstall == InitChangeSet

SpecInstall == InitInstall /\ [][NextI]_vars

(***************************************************************************)
(* Properties of installAction.                                            *)
(***************************************************************************)
\* A process of the task is running.
InFlight(t) == t.pc \in {"install", "list", "peers"}

\* C31: the installs run one at a time: at most one task has a process
\* running; a task that was called has every task before it at its
\* successful end, so that the root install comes before the directories,
\* a directory's install and peer install before the next directory, and
\* nothing is called behind a failed install; and the directories' tasks
\* are those of the list, in its order, behind the root's.
C31_InstallsOneAtATime ==
  /\ Cardinality({i \in 1..Len(tasks) : InFlight(tasks[i])}) <= 1
  /\ \A i, j \in 1..Len(tasks) :
       (i < j /\ tasks[j].pc # "idle") => tasks[i].pc = "done"
  /\ \A i, j \in 1..Len(tasks) :
       (tasks[i].kind # "dir" /\ tasks[j].kind = "dir") => i < j
  /\ ipc # "idle" =>
       LET IsDirTask(t) == t.kind = "dir"
           ds == SelectSeq(tasks, IsDirTask)
       IN /\ Len(ds) = Len(iopt.dirs)
          /\ \A k \in 1..Len(ds) : ds[k].dir = iopt.dirs[k]

\* The peer dependencies of the second directory are being installed, after
\* the installs of the root and of the first directory have ended.
C31_Witness ==
  /\ ipc = "dirs"
  /\ Len(tasks) = 3
  /\ tasks[1].kind = "root" /\ tasks[1].pc = "done"
  /\ tasks[2].kind = "dir" /\ tasks[2].pc = "done"
  /\ tasks[3].kind = "dir" /\ tasks[3].pc = "peers"


====
